---------------------------- MODULE Spec2Model ----------------------------
(***************************************************************************)
(* Mail -> Calendar (src/Code.js): the HOURLY-CHAIN escalation engine.     *)
(*                                                                         *)
(* Instants are JavaScript Date values: integer milliseconds since an      *)
(* epoch that is a UTC midnight.  The script time zone is Asia/Jerusalem   *)
(* (src/README.md), a whole number of hours from UTC; daylight-saving      *)
(* changes are not modelled, so Date#setMinutes arithmetic is plain        *)
(* addition.                                                               *)
(***************************************************************************)
EXTENDS Integers, Sequences, FiniteSets, Bags, TLC

(***************************************************************************)
(* CONFIG (Code.js 28-82) and the literals of the date helpers.            *)
(***************************************************************************)
ACTIVE_WINDOW_HOURS == 24
EVENT1_START_PLUS_MINUTES == 10
HOURLY_INTERVAL_HOURS == 1
HOURLY_BLOCK_MAX_SIGNALS == 5
QUIET_HOUR_START == 23
QUIET_HOUR_END == 7
FINAL_REMINDERS_MINUTES == <<40, 30, 20, 10, 0>>
BLOCK_EVENT_MINUTES == 5
FIND_WINDOW_HOURS == 48
DELETE_WINDOW_DAYS == 180
HoursPerDay == 24
MsPerMinute == 60000
TzOffsetHours == 2

MsPerHour == 60 * MsPerMinute
MsPerDay == 24 * MsPerHour

(***************************************************************************)
(* Bounds of the model.                                                    *)
(***************************************************************************)
\* the planner is tried with HOURLY_INTERVAL_HOURS in 1..MaxInterval
MaxInterval == 2
\* longStart falls in UTC hours FirstStartHour .. FirstStartHour+MaxStartHours
MaxStartHours == 23
\* expiresAt lies up to MaxBackHours before and MaxSpanHours after that hour
MaxBackHours == 24
MaxSpanHours == 24

FirstStartHour == 2 * 24

\* the clock moves from Epoch0 in at most MaxClockSteps steps of ClockStepHours
MaxClockSteps == 9
ClockStepHours == 3
\* runTestOnce is run at most MaxTestRuns times
MaxTestRuns == 2
\* a human deletes at most MaxHumanDeletes block events
MaxHumanDeletes == 1
\* at most MaxOverlap invocations run at the same time
MaxOverlap == 2
\* with overlapping invocations, the clock moves in at most MaxConcClockSteps steps
MaxConcClockSteps == 2
\* the packer is tried with every increasing sequence over MaxPackSignals instants
MaxPackSignals == 11
\* isInQuietHours_ is tried with both quiet bounds from 0 to MaxQuietHour
MaxQuietHour == 24
\* before the hourly run ingests its mail, up to MaxWaitHours hours pass
MaxWaitHours == 3
\* the hourly run is followed for MaxHourlyHours hours from the first run
MaxHourlyHours == 24
\* a run with late ticks is followed for MaxLateHours hours from the first run
MaxLateHours == 76
\* deleteAllTestAlerts is tried on events that ended up to MaxAgeDays days ago
MaxAgeDays == 181

\* offsets within the hour of longStart (now + 10 minutes, any millisecond)
StartOffsets == {0, 10 * MsPerMinute, 37 * MsPerMinute + 12345}
\* offsets within the hour of expiresAt: on the hour, on a minute, and off the
\* minute below, at and above half a minute
ExpiryOffsets ==
    {0, 30 * MsPerMinute, 37 * MsPerMinute + 12345,
     20 * MsPerMinute + 30000, 14 * MsPerMinute + 45000}

(***************************************************************************)
(* DATE HELPERS                                                            *)
(***************************************************************************)
addMinutes_(dt, minutes) == dt + minutes * MsPerMinute

addHours_(dt, hours) == addMinutes_(dt, hours * 60)

\* Math.ceil(ms / stepMs) * stepMs
ceilToMinutes_(dt, stepMinutes) ==
    LET stepMs == stepMinutes * 60 * 1000
    IN  ((dt + stepMs - 1) \div stepMs) * stepMs

ceilToHour_(dt) == ceilToMinutes_(dt, 60)

\* Date#getHours: the hour of day in the script time zone
getHours(dt) == ((dt \div MsPerHour) + TzOffsetHours) % 24

\* Date#getMinutes
getMinutes(dt) == (dt \div MsPerMinute) % 60

\* Math.round(num / den) for den > 0: halves round up
MathRoundDiv(num, den) == (2 * num + den) \div (2 * den)

\* Date#toISOString keeps the instant to the millisecond: the calendar day and
\* the time of day in UTC; new Date(iso) reads it back.
toISOString(dt) == [day |-> dt \div MsPerDay, ms |-> dt % MsPerDay]

parseISO(iso) == iso.day * MsPerDay + iso.ms

\* formatYYYYMMDDHHMM_: local date, hour and minute; seconds are dropped.
\* The whole local minute count stands for the twelve digits.
formatYYYYMMDDHHMM_(dt) == (dt + TzOffsetHours * MsPerHour) \div MsPerMinute

(***************************************************************************)
(* Quiet-window policy                                                     *)
(***************************************************************************)
isInQuietHoursGt(dt) ==
    LET h == getHours(dt)
    IN  (h > QUIET_HOUR_START) \/ (h < QUIET_HOUR_END)

\* mutant: quiet between the two bounds only
isInQuietHoursBetween(dt, quietStart, quietEnd) ==
    LET h == getHours(dt)
    IN  (h >= quietStart) /\ (h < quietEnd)

\* 720-723 with CONFIG.QUIET_HOUR_START and CONFIG.QUIET_HOUR_END as arguments
isInQuietHoursWith(dt, quietStart, quietEnd) ==
    LET h == getHours(dt)
    IN  (h >= quietStart) \/ (h < quietEnd)

isInQuietHours_(dt) == isInQuietHoursWith(dt, QUIET_HOUR_START, QUIET_HOUR_END)

(***************************************************************************)
(* Signal planner                                                          *)
(***************************************************************************)
RECURSIVE SignalLoopToDeadline(_, _, _, _)
\* mutant: the loop steps up to the deadline
SignalLoopToDeadline(t, endSignal, intervalHours, signals) ==
    IF t <= addHours_(endSignal, 1)
    THEN SignalLoopToDeadline(addHours_(t, intervalHours), endSignal, intervalHours,
                              IF ~isInQuietHours_(t) THEN Append(signals, t) ELSE signals)
    ELSE signals

RECURSIVE SignalLoop(_, _, _, _)
\* the while loop of buildHourlySignals_ (1085-1088)
SignalLoop(t, endSignal, intervalHours, signals) ==
    IF t <= endSignal
    THEN SignalLoop(addHours_(t, intervalHours), endSignal, intervalHours,
                    IF ~isInQuietHours_(t) THEN Append(signals, t) ELSE signals)
    ELSE signals

\* mutant: the end signal is pushed without looking at the last kept signal
AppendEndSignalAlways(signals, endSignal) ==
    IF ~isInQuietHours_(endSignal) THEN Append(signals, endSignal) ELSE signals

\* mutant: the end signal is never pushed
AppendEndSignalNever(signals, endSignal) == signals

\* the tail of buildHourlySignals_ (1090-1094)
AppendEndSignal(signals, endSignal) ==
    IF ~isInQuietHours_(endSignal)
    THEN IF Len(signals) = 0 \/ signals[Len(signals)] # endSignal
         THEN Append(signals, endSignal)
         ELSE signals
    ELSE signals

\* buildHourlySignals_ with CONFIG.HOURLY_INTERVAL_HOURS as a parameter
buildHourlySignalsEvery(longStart, expiresAt, intervalHours) ==
    LET endSignal == addHours_(expiresAt, -1)
        firstRaw == addHours_(longStart, 1)
        t == ceilToHour_(firstRaw)
    IN  AppendEndSignal(SignalLoop(t, endSignal, intervalHours, <<>>), endSignal)

buildHourlySignals_(longStart, expiresAt) ==
    buildHourlySignalsEvery(longStart, expiresAt, HOURLY_INTERVAL_HOURS)

(***************************************************************************)
(* Block packer                                                            *)
(***************************************************************************)
\* mutant: the chunk stops one signal short
SliceShort(signals, i, step) ==
    SubSeq(signals, i + 1,
           IF i + step - 1 < Len(signals) THEN i + step - 1 ELSE Len(signals))

\* signals.slice(i, i + step), i counted from 0
Slice(signals, i, step) ==
    SubSeq(signals, i + 1, IF i + step < Len(signals) THEN i + step ELSE Len(signals))

\* mutant: the block starts at the first signal of its chunk
MakeBlockFromFirst(slice) ==
    LET start == slice[1]
    IN  [start |-> toISOString(start),
         reminders |-> [j \in 1..Len(slice) |->
                          MathRoundDiv(start - slice[j], MsPerMinute)]]

\* the body of the for loop of buildHourlyBlocks_ (1106-1115)
MakeBlock(slice) ==
    LET start == slice[Len(slice)]
    IN  [start |-> toISOString(start),
         reminders |-> [j \in 1..Len(slice) |->
                          MathRoundDiv(start - slice[j], MsPerMinute)]]

RECURSIVE BlockLoop(_, _, _)
BlockLoop(signals, i, blocks) ==
    IF i < Len(signals)
    THEN BlockLoop(signals, i + HOURLY_BLOCK_MAX_SIGNALS,
                   Append(blocks, MakeBlock(Slice(signals, i, HOURLY_BLOCK_MAX_SIGNALS))))
    ELSE blocks

buildHourlyBlocks_(signals) == BlockLoop(signals, 0, <<>>)

(***************************************************************************)
(* Identifiers (MAILALERT_ID markers)                                      *)
(*                                                                         *)
(* An id is the tuple of the parts the code joins with "|".  The empty     *)
(* string (falsy in JavaScript) is NoId.  A description ends with the line *)
(* "MAILALERT_ID: <id>" and every id has the same fixed-width parts, so    *)
(* the substring test of findEventById_ is equality of ids.                *)
(***************************************************************************)
NoId == <<>>

\* String(threadId).slice(-8)
Tid8(threadId) ==
    IF Len(threadId) <= 8 THEN threadId
    ELSE SubSeq(threadId, Len(threadId) - 7, Len(threadId))

\* mutant: the minute key is taken from now in both modes
buildBaseIdFromNow(mode, threadId, receivedAt, now) ==
    <<mode, formatYYYYMMDDHHMM_(now), Tid8(threadId)>>

buildBaseId_(mode, threadId, receivedAt, now) ==
    LET keyDate == IF mode = "TEST" THEN now ELSE receivedAt
    IN  <<mode, formatYYYYMMDDHHMM_(keyDate), Tid8(threadId)>>

ChainIdOf(baseId) == <<baseId, "HCHAIN">>

LongIdOf(baseId) == <<baseId, "LONG", 0, 0>>

HourlyEventId(chainId, index, start) ==
    <<chainId, "B", index, formatYYYYMMDDHHMM_(start)>>

FinalEventId(chainId, start) ==
    <<chainId, "FINAL", 0, formatYYYYMMDDHHMM_(start)>>

(***************************************************************************)
(* Calendar surface: a bag of events [id, start, end]                      *)
(***************************************************************************)
NoEvent == [id |-> NoId, start |-> 0, end |-> 0]

\* cal.createEvent(title, start, end, {description})
CreateEvent(cal, id, start, end) ==
    cal (+) SetToBag({[id |-> id, start |-> start, end |-> end]})

\* mutant: deleteEvent leaves the event on the calendar
DeleteEventIgnored(cal, ev) == cal

\* ev.deleteEvent()
DeleteEvent(cal, ev) == cal (-) SetToBag({ev})

\* cal.getEvents(from, to): the events that overlap the range
GetEvents(cal, from, to) ==
    {e \in BagToSet(cal) : e.start < to /\ e.end > from}

\* findEventById_: the first event of the range that carries the id, or null
\* (none of the events the script creates is an all-day event)
findEventById_(cal, from, to, alertId) ==
    LET found == {e \in GetEvents(cal, from, to) : e.id = alertId}
    IN  IF found = {} THEN NoEvent
        ELSE CHOOSE e \in found :
                 \A f \in found : e.start < f.start \/ (e.start = f.start /\ e.end <= f.end)

(***************************************************************************)
(* Script properties: chainId -> persisted chain state                     *)
(***************************************************************************)
NoState == [chainId |-> NoId]

saveHourlyChainState_(store, state) ==
    [k \in DOMAIN store \cup {state.chainId} |->
        IF k = state.chainId THEN state ELSE store[k]]

\* mutant: the lookup never finds a record
getHourlyChainStateNull(store, chainId) == NoState

\* a stored text JSON.parse accepts; the records the script saves have no
\* field json, a text that is not JSON is the record [json |-> FALSE]
Parses(raw) == "json" \notin DOMAIN raw \/ raw.json

getHourlyChainState_(store, chainId) ==
    IF chainId \in DOMAIN store /\ Parses(store[chainId]) THEN store[chainId]
    ELSE NoState

deleteHourlyChainState_(store, chainId) ==
    [k \in DOMAIN store \ {chainId} |-> store[k]]

\* the records, as a set; the order of Object.keys is left to the caller;
\* 1234: a text JSON.parse throws on is left out
listHourlyChainStates_(store) ==
    {store[k] : k \in {j \in DOMAIN store : Parses(store[j])}}

(***************************************************************************)
(* Trigger lifecycle: the number of processHourlyChains_ triggers          *)
(***************************************************************************)
\* ensureHourlyChainTrigger_, from the list it read
EnsureWrite(seen, triggers) == IF seen > 0 THEN triggers ELSE triggers + 1

\* mutant: the trigger is created without looking at the project triggers
ensureHourlyChainTriggerBlind(triggers) == triggers + 1

ensureHourlyChainTrigger_(triggers) == EnsureWrite(triggers, triggers)

\* cleanupHourlyChainTrigger_, from the number of chains it listed: deletes
\* each trigger of the list it reads after them
CleanupWrite(listed, triggers) == IF listed > 0 THEN triggers ELSE 0

cleanupHourlyChainTrigger_(store, triggers) ==
    CleanupWrite(Cardinality(listHourlyChainStates_(store)), triggers)

(***************************************************************************)
(* Materialization of blocks                                               *)
(***************************************************************************)
\* mutant: the marker of a block event does not number the block
createHourlyBlockEventUnnumbered(cal, chainId, index, block) ==
    LET start == parseISO(block.start)
        end == addMinutes_(start, BLOCK_EVENT_MINUTES)
        eventId == HourlyEventId(chainId, 0, start)
    IN  [cal |-> CreateEvent(cal, eventId, start, end), eventId |-> eventId]

\* createHourlyBlockEvent_: creates the event, returns its id
createHourlyBlockEvent_(cal, chainId, index, block) ==
    LET start == parseISO(block.start)
        end == addMinutes_(start, BLOCK_EVENT_MINUTES)
        eventId == HourlyEventId(chainId, index, start)
    IN  [cal |-> CreateEvent(cal, eventId, start, end), eventId |-> eventId]

\* mutant: the final event is placed at the start of the last block
createFinalEventAtLastBlock(cal, state) ==
    LET start == parseISO(state.blocks[Len(state.blocks)].start)
        end == addMinutes_(start, BLOCK_EVENT_MINUTES)
        eventId == FinalEventId(state.chainId, start)
    IN  [cal |-> CreateEvent(cal, eventId, start, end), eventId |-> eventId]

\* createFinalEvent_
createFinalEvent_(cal, state) ==
    LET start == parseISO(state.expiresAt)
        end == addMinutes_(start, BLOCK_EVENT_MINUTES)
        eventId == FinalEventId(state.chainId, start)
    IN  [cal |-> CreateEvent(cal, eventId, start, end), eventId |-> eventId]

\* 1150-1152: ev.addPopupReminder(block.reminders[i]); a popup reminder of m
\* minutes fires m minutes before the start of its event
BlockReminderInstants(block) ==
    {addMinutes_(parseISO(block.start), -block.reminders[j]) :
        j \in 1..Len(block.reminders)}

\* 1181-1183: ev.addPopupReminder(CONFIG.FINAL_REMINDERS_MINUTES[i])
FinalReminderInstants(expiresAt) ==
    {addMinutes_(expiresAt, -FINAL_REMINDERS_MINUTES[i]) :
        i \in 1..Len(FINAL_REMINDERS_MINUTES)}

(***************************************************************************)
(* startHourlyChainForMail_                                                *)
(* The result: the store, the calendar, the triggers, and what was done.   *)
(***************************************************************************)
\* 980-996: the record startHourlyChainForMail_ persists
ChainStateAtStart(mail, baseId, longStart, expiresAt, blocks, eventId) ==
    [chainId |-> ChainIdOf(baseId),
     baseId |-> baseId,
     mode |-> mail.mode,
     threadId |-> mail.threadId,
     receivedAt |-> toISOString(mail.receivedAt),
     longStart |-> toISOString(longStart),
     expiresAt |-> toISOString(expiresAt),
     blocks |-> blocks,
     indexCurrent |-> 0,
     currentEventId |-> eventId,
     pendingDeleteEventId |-> NoId,
     status |-> "active"]

\* mutant: the trigger is armed before the signals are looked at
startHourlyChainArmingFirst(store, cal, triggers, mail, baseId, longStart, expiresAt) ==
    LET chainId == ChainIdOf(baseId)
        signals == buildHourlySignals_(longStart, expiresAt)
        blocks == buildHourlyBlocks_(signals)
        made == createHourlyBlockEvent_(cal, chainId, 0, blocks[1])
        state == ChainStateAtStart(mail, baseId, longStart, expiresAt, blocks,
                                   made.eventId)
        same == [store |-> store, cal |-> cal, triggers |-> triggers]
    IN  IF getHourlyChainState_(store, chainId) # NoState
        THEN same @@ [did |-> "exists", baseId |-> baseId]
        ELSE IF Len(signals) = 0 \/ Len(blocks) = 0
        THEN [store |-> store, cal |-> cal,
              triggers |-> ensureHourlyChainTrigger_(triggers),
              did |-> "skip", baseId |-> baseId]
        ELSE [store |-> saveHourlyChainState_(store, state),
              cal |-> made.cal,
              triggers |-> ensureHourlyChainTrigger_(triggers),
              did |-> "started", baseId |-> baseId]

startHourlyChainForMail_(store, cal, triggers, mail, baseId, longStart, expiresAt) ==
    LET chainId == ChainIdOf(baseId)
        signals == buildHourlySignals_(longStart, expiresAt)
        blocks == buildHourlyBlocks_(signals)
        made == createHourlyBlockEvent_(cal, chainId, 0, blocks[1])
        state == ChainStateAtStart(mail, baseId, longStart, expiresAt, blocks,
                                   made.eventId)
        same == [store |-> store, cal |-> cal, triggers |-> triggers]
    IN  IF getHourlyChainState_(store, chainId) # NoState
        THEN same @@ [did |-> "exists", baseId |-> baseId]
        ELSE IF Len(signals) = 0 \/ Len(blocks) = 0
        THEN same @@ [did |-> "skip", baseId |-> baseId]
        ELSE [store |-> saveHourlyChainState_(store, state),
              cal |-> made.cal,
              triggers |-> ensureHourlyChainTrigger_(triggers),
              did |-> "started", baseId |-> baseId]

(***************************************************************************)
(* createTwoEventsForMail_: the LONG event, then the chain                 *)
(***************************************************************************)
\* CalendarApp refuses an event that ends before it starts: the call throws
LongEventThrows(longStart, expiresAt) == expiresAt < longStart

\* 543-556: the deadline, the start of the LONG event and the fingerprint
PlanOf(mail, now) ==
    [expiresAt |-> mail.receivedAt + ACTIVE_WINDOW_HOURS * 60 * 60 * 1000,
     longStart |-> addMinutes_(now, EVENT1_START_PLUS_MINUTES),
     baseId |-> buildBaseId_(mail.mode, mail.threadId, mail.receivedAt, now)]

\* 574-607: the LONG event is looked up by its id and created if not found
LongStep(cal, mail, now) ==
    LET p == PlanOf(mail, now)
        longId == LongIdOf(p.baseId)
        longExists == findEventById_(cal, addMinutes_(p.longStart, -60),
                                     addMinutes_(p.expiresAt, 60), longId)
    IN  IF longExists # NoEvent THEN [cal |-> cal, threw |-> FALSE]
        ELSE IF LongEventThrows(p.longStart, p.expiresAt)
        THEN [cal |-> cal, threw |-> TRUE]
        ELSE [cal |-> CreateEvent(cal, longId, p.longStart, p.expiresAt),
              threw |-> FALSE]

createTwoEventsForMail_(store, cal, triggers, mail, now) ==
    LET p == PlanOf(mail, now)
        l == LongStep(cal, mail, now)
    IN  IF l.threw
        THEN [store |-> store, cal |-> cal, triggers |-> triggers, did |-> "threw",
              baseId |-> p.baseId]
        ELSE startHourlyChainForMail_(store, l.cal, triggers, mail, p.baseId,
                                      p.longStart, p.expiresAt)

(***************************************************************************)
(* processHourlyChains_: one iteration of the for loop (1018-1072)         *)
(* The result: the calendar, the record to save (NoState: the record is    *)
(* deleted), the branch taken and the ids of the events created.           *)
(***************************************************************************)
\* mutant: the pending event is left in the calendar
DeletePendingSkipped(cal, st, now) == cal

\* mutant: with the pending event, the LONG event of the chain is deleted
DeletePendingAndLong(cal, st, now) ==
    LET long == IF st.pendingDeleteEventId # NoId
                THEN {e \in BagToSet(cal) : e.id = LongIdOf(st.baseId)}
                ELSE {}
        pending == {e \in BagToSet(cal) : e.id = st.pendingDeleteEventId}
    IN  [e \in BagToSet(cal) \ (long \cup pending) |-> cal[e]]

\* 1020-1022: the calendar after the pending event, if found, is deleted
DeletePending(cal, st, now) ==
    LET pending == IF st.pendingDeleteEventId # NoId
                   THEN findEventById_(cal, addHours_(now, -FIND_WINDOW_HOURS),
                                       addHours_(now, FIND_WINDOW_HOURS),
                                       st.pendingDeleteEventId)
                   ELSE NoEvent
    IN  IF pending # NoEvent THEN DeleteEvent(cal, pending) ELSE cal

\* mutant: the current event is taken to exist
CurrentEventAssumed(cal, st, now) == [id |-> st.currentEventId, start |-> 0, end |-> 0]

\* 1037: the current block's event, looked up by its id
CurrentEvent(cal, st, now) ==
    findEventById_(cal, addHours_(now, -FIND_WINDOW_HOURS),
                   addHours_(now, FIND_WINDOW_HOURS), st.currentEventId)

\* mutant: a due tick skips a block whenever two or more blocks remain
NextIndexSkippingOne(st) ==
    IF st.indexCurrent + 2 < Len(st.blocks) THEN st.indexCurrent + 2
    ELSE st.indexCurrent + 1

\* mutant: a due tick jumps to the last block
NextIndexSkipping(st) == Len(st.blocks) - 1

\* 1052
NextIndex(st) == st.indexCurrent + 1

TickChain(cal, st, now) ==
    LET cal1 == DeletePending(cal, st, now)
        st1 == [st EXCEPT !.pendingDeleteEventId = NoId]
        currentBlock == st1.blocks[st1.indexCurrent + 1]
        exists == CurrentEvent(cal1, st1, now)
        currentStart == parseISO(currentBlock.start)
        nextIndex == NextIndex(st1)
        next == createHourlyBlockEvent_(cal1, st1.chainId, nextIndex,
                                        st1.blocks[nextIndex + 1])
        final == createFinalEvent_(cal1, st1)
    IN  IF st1.status = "final_cleanup"
        THEN [cal |-> cal1, put |-> NoState, path |-> "final_cleanup", created |-> {}]
        ELSE IF st1.currentEventId = NoId
        THEN [cal |-> cal1, put |-> NoState, path |-> "no_current", created |-> {}]
        ELSE IF exists = NoEvent
        THEN [cal |-> cal1, put |-> NoState, path |-> "cancelled", created |-> {}]
        ELSE IF now < currentStart
        THEN [cal |-> cal1, put |-> st1, path |-> "not_due", created |-> {}]
        ELSE IF st1.indexCurrent < Len(st1.blocks) - 1
        THEN [cal |-> next.cal,
              put |-> [st1 EXCEPT !.pendingDeleteEventId = st1.currentEventId,
                                  !.currentEventId = next.eventId,
                                  !.indexCurrent = nextIndex],
              path |-> "advanced", created |-> {next.eventId}]
        ELSE IF final.eventId # NoId
        THEN [cal |-> final.cal,
              put |-> [st1 EXCEPT !.pendingDeleteEventId = st1.currentEventId,
                                  !.currentEventId = NoId,
                                  !.status = "final_cleanup"],
              path |-> "final_created", created |-> {final.eventId}]
        ELSE [cal |-> final.cal, put |-> NoState, path |-> "final_failed",
              created |-> {}]

\* mutant: a tick that is not due does not save the record
StoreAfterUnsavedIfNotDue(store, st, r) ==
    IF r.put = NoState THEN deleteHourlyChainState_(store, st.chainId)
    ELSE IF r.path = "not_due" THEN store
    ELSE saveHourlyChainState_(store, r.put)

\* the store after the iteration: saveHourlyChainState_ or
\* deleteHourlyChainState_ of the record the iteration worked on
StoreAfter(store, st, r) ==
    IF r.put = NoState THEN deleteHourlyChainState_(store, st.chainId)
    ELSE saveHourlyChainState_(store, r.put)

(***************************************************************************)
(* State                                                                   *)
(***************************************************************************)
VARIABLES
    clock,          \* new Date(): the current instant
    labelled,       \* Gmail: the threads that carry PROCESSED_LABEL_NAME
    store,          \* ScriptProperties: chainId -> chain state
    calendar,       \* the default calendar: a bag of events
    triggers,       \* the number of processHourlyChains_ triggers
    testRuns,       \* how often runTestOnce was run
    humanDeletes,   \* how many events a human deleted
    last,           \* the last operation and what it did
    started,        \* the baseIds startHourlyChainForMail_ was called with
    lock,           \* LockService script lock: the invocation holding it, or 0
    inv,            \* the invocations in progress, by slot
    pLongStart,     \* planner run: argument longStart
    pExpiresAt,     \* planner run: argument expiresAt
    pInterval,      \* planner run: CONFIG.HOURLY_INTERVAL_HOURS
    pSignals,       \* planner run: result of buildHourlySignals_
    pBlocks,        \* planner run: result of buildHourlyBlocks_
    pPhase          \* planner run: "input", "planned", "packed"

plannerVars == <<pLongStart, pExpiresAt, pInterval, pSignals, pBlocks, pPhase>>

dataVars == <<clock, labelled, store, calendar, triggers, testRuns, humanDeletes>>

machineVars == <<dataVars, last, started, lock, inv>>

vars == <<machineVars, plannerVars>>

\* the instant at local time hour:minute of day `day`
LocalInstant(day, hour, minute) ==
    (day * 24 + hour - TzOffsetHours) * MsPerHour + minute * MsPerMinute

\* the first run of the script: 09:50 local time
Epoch0 == LocalInstant(2, 9, 50)

\* the mails of the expected sender (one message per thread); thread ids are
\* digit strings longer than the eight characters buildBaseId_ keeps
ThreadA == <<7, 1, 0, 0, 0, 0, 0, 0, 0, 1>>

ThreadB == <<7, 2, 0, 0, 0, 0, 0, 0, 0, 2>>

\* one mail with its deadline in the morning, one with its deadline at night
Mailbox ==
    {[threadId |-> ThreadA, receivedAt |-> LocalInstant(2, 9, 0)],
     [threadId |-> ThreadB, receivedAt |-> LocalInstant(2, 4, 30)]}

\* the mails in the inbox when invocations are followed step by step
ConcMailbox == {m \in Mailbox : m.threadId = ThreadA}

\* the instants at which somebody runs runTestOnce
TestRunInstants == {Epoch0}

EmptyStore == [k \in {} |-> NoState]

\* the slots of invocations that may run at the same time
Slots == 1..MaxOverlap

Idle == [op |-> "idle", pc |-> "idle", now |-> 0, mails |-> <<>>, chains |-> <<>>,
         i |-> 0, seen |-> 0]

MachineInit ==
    /\ clock = Epoch0
    /\ labelled = {}
    /\ store = EmptyStore
    /\ calendar = EmptyBag
    /\ triggers = 0
    /\ testRuns = 0
    /\ humanDeletes = 0
    /\ last = [op |-> "init"]
    /\ started = {}
    /\ lock = 0
    /\ inv = [s \in Slots |-> Idle]

PlannerIdle ==
    /\ pLongStart = 0
    /\ pExpiresAt = 0
    /\ pInterval = HOURLY_INTERVAL_HOURS
    /\ pSignals = <<>>
    /\ pBlocks = <<>>
    /\ pPhase = "idle"

(***************************************************************************)
(* The planner and the packer applied to bounded inputs                    *)
(***************************************************************************)
PlannerInit ==
    /\ \E h \in FirstStartHour..(FirstStartHour + MaxStartHours), o \in StartOffsets :
          pLongStart = h * MsPerHour + o
    /\ \E h \in (FirstStartHour - MaxBackHours)..(FirstStartHour + MaxStartHours + MaxSpanHours),
          o \in ExpiryOffsets :
          pExpiresAt = h * MsPerHour + o
    /\ pInterval \in 1..MaxInterval
    /\ pSignals = <<>>
    /\ pBlocks = <<>>
    /\ pPhase = "input"

PlanSignals ==
    /\ pPhase = "input"
    /\ pSignals' = buildHourlySignalsEvery(pLongStart, pExpiresAt, pInterval)
    /\ pPhase' = "planned"
    /\ UNCHANGED <<pLongStart, pExpiresAt, pInterval, pBlocks, machineVars>>

PackBlocks ==
    /\ pPhase = "planned"
    /\ pBlocks' = buildHourlyBlocks_(pSignals)
    /\ pPhase' = "packed"
    /\ UNCHANGED <<pLongStart, pExpiresAt, pInterval, pSignals, machineVars>>

PlannerNext == PlanSignals \/ PackBlocks

PlannerStart == MachineInit /\ PlannerInit

PlannerSpec == PlannerStart /\ [][PlannerNext]_vars

(***************************************************************************)
(* The packer applied to every strictly increasing sequence over a grid of *)
(* instants: three per hour, 30 seconds apart                              *)
(***************************************************************************)
PackInstant(k) == FirstStartHour * MsPerHour + (k \div 3) * MsPerHour + (k % 3) * 30000

PackGrid == {PackInstant(k) : k \in 0..(MaxPackSignals - 1)}

RECURSIVE SortSet(_)
\* the instants of S in chronological order
SortSet(S) ==
    IF S = {} THEN <<>>
    ELSE LET m == CHOOSE x \in S : \A y \in S : x <= y
         IN  <<m>> \o SortSet(S \ {m})

PackerStart ==
    /\ MachineInit
    /\ pLongStart = 0
    /\ pExpiresAt = 0
    /\ pInterval = HOURLY_INTERVAL_HOURS
    /\ pSignals \in {SortSet(S) : S \in SUBSET PackGrid}
    /\ pBlocks = <<>>
    /\ pPhase = "planned"

PackerSpec == PackerStart /\ [][PackBlocks]_vars

(***************************************************************************)
(* Operations, each a whole invocation                                     *)
(***************************************************************************)
\* the sequences that list each element of the set once
Orders(S) ==
    {o \in [1..Cardinality(S) -> S] : \A i, j \in 1..Cardinality(S) : o[i] = o[j] => i = j}

\* time passes
AdvanceClock ==
    /\ clock + ClockStepHours * MsPerHour
          <= Epoch0 + MaxClockSteps * ClockStepHours * MsPerHour
    /\ clock' = clock + ClockStepHours * MsPerHour
    /\ last' = [op |-> "clock"]
    /\ UNCHANGED <<labelled, store, calendar, triggers, testRuns, humanDeletes,
                   started, lock, inv>>

RECURSIVE LiveLoop(_, _, _, _, _, _, _)
\* the for loop over the threads found (162-193): createTwoEventsForMail_,
\* then thread.addLabel; an exception leaves the loop
LiveLoop(threads, i, st, cal, trg, lab, now) ==
    IF i > Len(threads)
    THEN [store |-> st, cal |-> cal, triggers |-> trg, labelled |-> lab, did |-> <<>>]
    ELSE LET mail == [mode |-> "LIVE", threadId |-> threads[i].threadId,
                      receivedAt |-> threads[i].receivedAt]
             r == createTwoEventsForMail_(st, cal, trg, mail, now)
             rest == LiveLoop(threads, i + 1, r.store, r.cal, r.triggers,
                              lab \cup {mail.threadId}, now)
             call == [baseId |-> r.baseId, did |-> r.did]
         IN  IF r.did = "threw"
             THEN [store |-> st, cal |-> cal, triggers |-> trg, labelled |-> lab,
                   did |-> <<call>>]
             ELSE [rest EXCEPT !.did = <<call>> \o rest.did]

\* GmailApp.search("from:... newer_than:2d -label:...")
SearchUnprocessed(lab, now) ==
    {m \in Mailbox : /\ m.threadId \notin lab
                     /\ m.receivedAt <= now
                     /\ m.receivedAt > now - 2 * MsPerDay}

\* checkMailAndCreateTwoEvents with CONFIG.TEST_MODE = false, lock acquired
IngestLive ==
    /\ SearchUnprocessed(labelled, clock) # {}
    /\ \E threads \in Orders(SearchUnprocessed(labelled, clock)) :
          LET r == LiveLoop(threads, 1, store, calendar, triggers, labelled, clock)
          IN  /\ store' = r.store
              /\ calendar' = r.cal
              /\ triggers' = r.triggers
              /\ labelled' = r.labelled
              /\ last' = [op |-> "ingest", calls |-> r.did]
              /\ started' = started \cup
                    {r.did[i].baseId : i \in {j \in 1..Len(r.did) : r.did[j].did # "threw"}}
    /\ UNCHANGED <<clock, testRuns, humanDeletes, lock, inv>>

\* findLatestMailFromSender_: the newest mail of the sender
LatestThreadId(now) ==
    LET got == {m \in Mailbox : m.receivedAt <= now}
    IN  (CHOOSE m \in got : \A n \in got : n.receivedAt <= m.receivedAt).threadId

\* runTestOnce: checkMailAndCreateTwoEvents with CONFIG.TEST_MODE = true
IngestTest ==
    /\ testRuns < MaxTestRuns
    /\ clock \in TestRunInstants
    /\ testRuns' = testRuns + 1
    /\ LET mail == [mode |-> "TEST", threadId |-> LatestThreadId(clock),
                    receivedAt |-> clock]
           r == createTwoEventsForMail_(store, calendar, triggers, mail, clock)
       IN  /\ store' = r.store
           /\ calendar' = r.cal
           /\ triggers' = r.triggers
           /\ last' = [op |-> "ingest", calls |-> <<[baseId |-> r.baseId, did |-> r.did]>>]
           /\ started' = IF r.did = "threw" THEN started ELSE started \cup {r.baseId}
    /\ UNCHANGED <<clock, labelled, humanDeletes, lock, inv>>

RECURSIVE TickLoop(_, _, _, _, _)
\* the for loop of processHourlyChains_ over the chains listed at its start
\* (r: the iteration on chains[i]; rest: the iterations after it; the set is
\* a singleton, written so that r and rest are computed once)
TickLoop(chains, i, st, cal, now) ==
    IF i > Len(chains)
    THEN [store |-> st, cal |-> cal, paths |-> <<>>, created |-> {}]
    ELSE CHOOSE out \in UNION {
             {[rest EXCEPT !.paths = <<<<chains[i].chainId, r.path>>>> \o rest.paths,
                           !.created = r.created \cup rest.created] :
                 rest \in {TickLoop(chains, i + 1, StoreAfter(st, chains[i], r),
                                    r.cal, now)}} :
             r \in {TickChain(cal, chains[i], now)}} : TRUE

\* processHourlyChains_, run by its hourly trigger
Tick ==
    /\ triggers > 0
    /\ \E chains \in Orders(listHourlyChainStates_(store)) :
          \E r \in {TickLoop(chains, 1, store, calendar, clock)} :
              /\ store' = r.store
              /\ calendar' = r.cal
              /\ triggers' = cleanupHourlyChainTrigger_(r.store, triggers)
              /\ last' = [op |-> "tick", paths |-> r.paths, created |-> r.created]
    /\ UNCHANGED <<clock, labelled, testRuns, humanDeletes, started, lock, inv>>

\* a human deletes a block event in the calendar ("delete to acknowledge")
HumanDelete ==
    /\ humanDeletes < MaxHumanDeletes
    /\ \E e \in BagToSet(calendar) :
          /\ e.id[2] = "B"
          /\ calendar' = DeleteEvent(calendar, e)
          /\ last' = [op |-> "human", id |-> e.id]
    /\ humanDeletes' = humanDeletes + 1
    /\ UNCHANGED <<clock, labelled, store, triggers, testRuns, started, lock, inv>>

Next ==
    \/ (AdvanceClock /\ UNCHANGED plannerVars)
    \/ (IngestLive /\ UNCHANGED plannerVars)
    \/ (IngestTest /\ UNCHANGED plannerVars)
    \/ (Tick /\ UNCHANGED plannerVars)
    \/ (HumanDelete /\ UNCHANGED plannerVars)

Init == MachineInit /\ PlannerIdle

Spec == Init /\ [][Next]_vars

(***************************************************************************)
(* The same operations when nobody touches the calendar by hand, time      *)
(* passes, and the hourly trigger, while it exists, keeps running          *)
(* processHourlyChains_ (ScriptApp ... everyHours(1), 1198-1201).          *)
(***************************************************************************)
LiveNext ==
    \/ (AdvanceClock /\ UNCHANGED plannerVars)
    \/ (IngestLive /\ UNCHANGED plannerVars)
    \/ (IngestTest /\ UNCHANGED plannerVars)
    \/ (Tick /\ UNCHANGED plannerVars)

LiveSpec ==
    /\ Init
    /\ [][LiveNext]_vars
    /\ WF_vars(AdvanceClock /\ UNCHANGED plannerVars)
    /\ WF_vars(Tick /\ UNCHANGED plannerVars)

(***************************************************************************)
(* The entry points step by step: the invocations in progress, one per     *)
(* slot, interleave between their calls to the lock, the calendar, the     *)
(* script properties and the triggers. An invocation takes seconds: the    *)
(* clock moves between invocations.                                        *)
(***************************************************************************)
AllIdle == \A s \in Slots : inv[s] = Idle

CurrentMail(s) == inv[s].mails[inv[s].i]

\* mutant: the return leaves the lock to its expiry
LeaveHoldingLock(s, kind) ==
    /\ inv' = [inv EXCEPT ![s] = Idle]
    /\ lock' = lock
    /\ last' = [op |-> "done", kind |-> kind]

\* the invocation returns; finally { lock.releaseLock() } of the holder
Leave(s, kind) ==
    /\ inv' = [inv EXCEPT ![s] = Idle]
    /\ lock' = IF lock = s THEN 0 ELSE lock
    /\ last' = [op |-> "done", kind |-> kind]

\* 90-96: tryLock fails, the run is skipped
LockBusy(s) ==
    /\ inv[s] = Idle
    /\ lock # 0
    /\ last' = [op |-> "lock_busy"]
    /\ UNCHANGED <<dataVars, started, lock, inv>>

\* 90, 141-153: the lock is acquired, the threads are searched
BeginIngestLive(s) ==
    /\ inv[s] = Idle
    /\ lock = 0
    /\ SearchUnprocessed(labelled, clock) \cap ConcMailbox # {}
    /\ \E threads \in Orders(SearchUnprocessed(labelled, clock) \cap ConcMailbox) :
          inv' = [inv EXCEPT ![s] =
                    [Idle EXCEPT !.op = "ingest", !.pc = "long", !.now = clock, !.i = 1,
                                 !.mails = [k \in 1..Len(threads) |->
                                              [mode |-> "LIVE",
                                               threadId |-> threads[k].threadId,
                                               receivedAt |-> threads[k].receivedAt]]]]
    /\ lock' = s
    /\ UNCHANGED <<dataVars, last, started>>

\* 90, 107-126: the lock is acquired, the TEST mail is made up
BeginIngestTest(s) ==
    /\ inv[s] = Idle
    /\ lock = 0
    /\ testRuns < MaxTestRuns
    /\ clock \in TestRunInstants
    /\ testRuns' = testRuns + 1
    /\ inv' = [inv EXCEPT ![s] =
                 [Idle EXCEPT !.op = "ingest", !.pc = "long", !.now = clock, !.i = 1,
                              !.mails = <<[mode |-> "TEST",
                                           threadId |-> LatestThreadId(clock),
                                           receivedAt |-> clock]>>]]
    /\ lock' = s
    /\ UNCHANGED <<clock, labelled, store, calendar, triggers, humanDeletes, last, started>>

\* createTwoEventsForMail_, 574-607: the LONG event
IngestLong(s) ==
    /\ inv[s].pc = "long"
    /\ \E l \in {LongStep(calendar, CurrentMail(s), inv[s].now)} :
          IF l.threw
          THEN Leave(s, "ingest") /\ UNCHANGED calendar
          ELSE /\ calendar' = l.cal
               /\ inv' = [inv EXCEPT ![s].pc = "check"]
               /\ UNCHANGED <<lock, last>>
    /\ UNCHANGED <<clock, labelled, store, triggers, testRuns, humanDeletes, started>>

\* startHourlyChainForMail_, 949-978: the chain is looked up; if it is new and
\* has blocks, the event of block 0 is created
IngestCheck(s) ==
    /\ inv[s].pc = "check"
    /\ \E p \in {PlanOf(CurrentMail(s), inv[s].now)} :
       \E blocks \in {buildHourlyBlocks_(buildHourlySignals_(p.longStart, p.expiresAt))} :
          /\ started' = started \cup {p.baseId}
          /\ IF getHourlyChainState_(store, ChainIdOf(p.baseId)) # NoState
                \/ Len(blocks) = 0
             THEN /\ inv' = [inv EXCEPT ![s].pc = "label"]
                  /\ UNCHANGED calendar
             ELSE /\ calendar' = createHourlyBlockEvent_(calendar, ChainIdOf(p.baseId),
                                                         0, blocks[1]).cal
                  /\ inv' = [inv EXCEPT ![s].pc = "save"]
    /\ UNCHANGED <<clock, labelled, store, triggers, testRuns, humanDeletes, last, lock>>

\* startHourlyChainForMail_, 980-998: saveHourlyChainState_
IngestSave(s) ==
    /\ inv[s].pc = "save"
    /\ \E p \in {PlanOf(CurrentMail(s), inv[s].now)} :
       \E blocks \in {buildHourlyBlocks_(buildHourlySignals_(p.longStart, p.expiresAt))} :
          store' = saveHourlyChainState_(store,
                      ChainStateAtStart(CurrentMail(s), p.baseId, p.longStart,
                          p.expiresAt, blocks,
                          HourlyEventId(ChainIdOf(p.baseId), 0,
                                        parseISO(blocks[1].start))))
    /\ inv' = [inv EXCEPT ![s].pc = "ensure"]
    /\ UNCHANGED <<clock, labelled, calendar, triggers, testRuns, humanDeletes,
                   last, started, lock>>

\* ensureHourlyChainTrigger_, 1188-1195: the triggers are listed
IngestEnsureRead(s) ==
    /\ inv[s].pc = "ensure"
    /\ inv' = [inv EXCEPT ![s].pc = "create", ![s].seen = triggers]
    /\ UNCHANGED <<dataVars, last, started, lock>>

\* ensureHourlyChainTrigger_, 1196-1201: a trigger is created if none was listed
IngestEnsureWrite(s) ==
    /\ inv[s].pc = "create"
    /\ triggers' = EnsureWrite(inv[s].seen, triggers)
    /\ inv' = [inv EXCEPT ![s].pc = "label", ![s].seen = 0]
    /\ UNCHANGED <<clock, labelled, store, calendar, testRuns, humanDeletes,
                   last, started, lock>>

\* 128-130 (TEST): return; 183-193 (LIVE): thread.addLabel, the next thread
IngestLabel(s) ==
    /\ inv[s].pc = "label"
    /\ labelled' = IF CurrentMail(s).mode = "LIVE"
                   THEN labelled \cup {CurrentMail(s).threadId} ELSE labelled
    /\ IF inv[s].i < Len(inv[s].mails)
       THEN /\ inv' = [inv EXCEPT ![s].pc = "long", ![s].i = inv[s].i + 1]
            /\ UNCHANGED <<lock, last>>
       ELSE Leave(s, "ingest")
    /\ UNCHANGED <<clock, store, calendar, triggers, testRuns, humanDeletes, started>>

\* processHourlyChains_, 1009-1015, fired by a trigger: the chains are listed
BeginTick(s) ==
    /\ inv[s] = Idle
    /\ triggers > 0
    /\ \E chains \in Orders(listHourlyChainStates_(store)) :
          inv' = [inv EXCEPT ![s] =
                    [Idle EXCEPT !.op = "tick", !.now = clock, !.chains = chains, !.i = 1,
                                 !.pc = IF Len(chains) = 0 THEN "cleanup" ELSE "chain"]]
    /\ UNCHANGED <<dataVars, last, started, lock>>

\* processHourlyChains_, 1018-1072: one iteration, on the record listed at
\* the start of the invocation
TickStep(s) ==
    /\ inv[s].pc = "chain"
    /\ \E r \in {TickChain(calendar, inv[s].chains[inv[s].i], inv[s].now)} :
          /\ calendar' = r.cal
          /\ store' = StoreAfter(store, inv[s].chains[inv[s].i], r)
    /\ inv' = [inv EXCEPT ![s].i = inv[s].i + 1,
                          ![s].pc = IF inv[s].i < Len(inv[s].chains)
                                    THEN "chain" ELSE "cleanup"]
    /\ UNCHANGED <<clock, labelled, triggers, testRuns, humanDeletes, last, started, lock>>

\* cleanupHourlyChainTrigger_, 1205-1206: the chains are listed
TickCleanupRead(s) ==
    /\ inv[s].pc = "cleanup"
    /\ inv' = [inv EXCEPT ![s].pc = "delete",
                          ![s].seen = Cardinality(listHourlyChainStates_(store))]
    /\ UNCHANGED <<dataVars, last, started, lock>>

\* cleanupHourlyChainTrigger_, 1206-1212: return, or the triggers are deleted
TickCleanupWrite(s) ==
    /\ inv[s].pc = "delete"
    /\ triggers' = CleanupWrite(inv[s].seen, triggers)
    /\ Leave(s, "tick")
    /\ UNCHANGED <<clock, labelled, store, calendar, testRuns, humanDeletes, started>>

\* 90, 141-153: the lock is acquired, the search finds no thread
BeginNoMail(s) ==
    /\ inv[s] = Idle
    /\ lock = 0
    /\ SearchUnprocessed(labelled, clock) \cap ConcMailbox = {}
    /\ inv' = [inv EXCEPT ![s] = [Idle EXCEPT !.op = "ingest", !.pc = "return",
                                              !.now = clock]]
    /\ lock' = s
    /\ UNCHANGED <<dataVars, last, started>>

\* 155-159: return from inside the try block
IngestReturn(s) ==
    /\ inv[s].pc = "return"
    /\ Leave(s, "no_mail")
    /\ UNCHANGED <<dataVars, started>>

\* time passes between invocations
ConcAdvanceClock ==
    /\ AllIdle
    /\ clock + ClockStepHours * MsPerHour
          <= Epoch0 + MaxConcClockSteps * ClockStepHours * MsPerHour
    /\ AdvanceClock

ConcNext ==
    \/ (ConcAdvanceClock /\ UNCHANGED plannerVars)
    \/ (HumanDelete /\ UNCHANGED plannerVars)
    \/ \E s \in Slots :
          \/ (LockBusy(s) /\ UNCHANGED plannerVars)
          \/ (BeginIngestLive(s) /\ UNCHANGED plannerVars)
          \/ (BeginIngestTest(s) /\ UNCHANGED plannerVars)
          \/ (IngestLong(s) /\ UNCHANGED plannerVars)
          \/ (IngestCheck(s) /\ UNCHANGED plannerVars)
          \/ (IngestSave(s) /\ UNCHANGED plannerVars)
          \/ (IngestEnsureRead(s) /\ UNCHANGED plannerVars)
          \/ (IngestEnsureWrite(s) /\ UNCHANGED plannerVars)
          \/ (IngestLabel(s) /\ UNCHANGED plannerVars)
          \/ (BeginTick(s) /\ UNCHANGED plannerVars)
          \/ (TickStep(s) /\ UNCHANGED plannerVars)
          \/ (TickCleanupRead(s) /\ UNCHANGED plannerVars)
          \/ (TickCleanupWrite(s) /\ UNCHANGED plannerVars)

ConcSpec == Init /\ [][ConcNext]_vars

(***************************************************************************)
(* Properties of the planner and the packer (PlannerSpec)                  *)
(***************************************************************************)
\* the local hour of day, read off the instant without the code's helpers
LocalHourOf(t) == ((t + TzOffsetHours * MsPerHour) % MsPerDay) \div MsPerHour

InQuietWindow(t) == LocalHourOf(t) \in (23..23) \cup (0..6)

StrictlyIncreasing(s) == \A i \in 1..(Len(s) - 1) : s[i] < s[i + 1]

BlockSizes(blocks) == [b \in 1..Len(blocks) |-> Len(blocks[b].reminders)]

\* the instants a block's reminders stand for: start minus reminders[j] minutes
ImpliedSignals(block) ==
    [j \in 1..Len(block.reminders) |->
        parseISO(block.start) - block.reminders[j] * MsPerMinute]

RECURSIVE Reconstruct(_)
Reconstruct(blocks) ==
    IF blocks = <<>> THEN <<>>
    ELSE ImpliedSignals(Head(blocks)) \o Reconstruct(Tail(blocks))

AbsDiff(a, b) == IF a >= b THEN a - b ELSE b - a

ScenarioStart == LocalInstant(2, 10, 0)
ScenarioDeadline == LocalInstant(3, 9, 0)

IsScenario ==
    /\ pPhase = "packed"
    /\ pInterval = 1
    /\ pLongStart = ScenarioStart
    /\ pExpiresAt = ScenarioDeadline

\* C7 (as claimed): in the scenario 10:00 -> next day 09:00 the planner yields
\* 13 signals, 11:00..22:00 hourly then 08:00, packed into blocks of 5, 5, 3.
C7_ScenarioAsClaimed ==
    IsScenario =>
        /\ pSignals = [i \in 1..13 |->
                         IF i <= 12 THEN LocalInstant(2, 10 + i, 0)
                         ELSE LocalInstant(3, 8, 0)]
        /\ BlockSizes(pBlocks) = <<5, 5, 3>>

\* C7 (amended): in the scenario the planner yields 14 signals, 11:00..22:00
\* hourly, then 07:00 and 08:00 of the next day (07:00 is the first hour
\* outside the quiet window), packed into blocks of 5, 5, 4.
C7_Scenario ==
    IsScenario =>
        /\ pSignals = [i \in 1..14 |->
                         IF i <= 12 THEN LocalInstant(2, 10 + i, 0)
                         ELSE LocalInstant(3, i - 6, 0)]
        /\ BlockSizes(pBlocks) = <<5, 5, 4>>

C7_Witness == IsScenario /\ Len(pSignals) = 14 /\ Len(pBlocks) = 3

\* C8: the planner's output is strictly increasing and no element of it has
\* its local hour inside the quiet window [23:00, 07:00).
C8_SignalsIncreasingAndLoud ==
    pPhase # "input" =>
        /\ StrictlyIncreasing(pSignals)
        /\ \A i \in 1..Len(pSignals) : ~InQuietWindow(pSignals[i])

\* a plan that skips the night and whose last stepped signal is deadline - 1h
C8_Witness ==
    /\ pPhase = "planned"
    /\ Len(pSignals) >= 3
    /\ \E i \in 1..(Len(pSignals) - 1) :
          pSignals[i + 1] - pSignals[i] > pInterval * MsPerHour
    /\ pSignals[Len(pSignals)] = addHours_(pExpiresAt, -1)
    /\ addHours_(pExpiresAt, -1) % MsPerHour = 0

\* C9: when deadline - 1h is outside the quiet window, the plan contains that
\* instant exactly once, as its last element.
C9_EndSignalLast ==
    (pPhase # "input" /\ ~InQuietWindow(pExpiresAt - MsPerHour)) =>
        /\ Len(pSignals) >= 1
        /\ pSignals[Len(pSignals)] = pExpiresAt - MsPerHour
        /\ Cardinality({i \in 1..Len(pSignals) :
                          pSignals[i] = pExpiresAt - MsPerHour}) = 1

\* deadline - 1h is off the hourly grid and follows stepped signals
C9_Witness ==
    /\ pPhase = "planned"
    /\ ~InQuietWindow(pExpiresAt - MsPerHour)
    /\ (pExpiresAt - MsPerHour) % MsPerHour # 0
    /\ Len(pSignals) >= 2
    /\ pSignals[Len(pSignals)] = pExpiresAt - MsPerHour

\* C10 (as claimed): the instants start - reminders[i] minutes, concatenated
\* over the blocks in order, are exactly the planned signals.
C10_RoundTripExact ==
    pPhase = "packed" => Reconstruct(pBlocks) = pSignals

\* C10 (amended): the concatenation has one instant per planned signal, in the
\* same order, each within half a minute of its signal, and equal to it when
\* the signal lies a whole number of minutes before its block's start.
C10_RoundTripToTheMinute ==
    pPhase = "packed" =>
        LET r == Reconstruct(pBlocks)
        IN  /\ Len(r) = Len(pSignals)
            /\ StrictlyIncreasing(r)
            /\ \A i \in 1..Len(r) :
                  /\ AbsDiff(r[i], pSignals[i]) * 2 <= MsPerMinute
                  /\ \E b \in 1..Len(pBlocks) :
                        LET d == parseISO(pBlocks[b].start) - pSignals[i]
                        IN  /\ d >= 0
                            /\ (d % MsPerMinute = 0 => r[i] = pSignals[i])

\* several blocks, the last one holding a signal off the minute of its start
C10_Witness ==
    /\ pPhase = "packed"
    /\ Len(pBlocks) >= 2
    /\ Len(pBlocks[Len(pBlocks)].reminders) >= 2
    /\ Reconstruct(pBlocks) # pSignals

(***************************************************************************)
(* processHourlyChains_ when creating the final event fails.               *)
(* createFinalEvent_ (1156-1185) has no return but "return eventId", and   *)
(* eventId is a non-empty string: its creation fails by cal.createEvent    *)
(* throwing. processHourlyChains_ (1008-1077) has no try: the exception    *)
(* ends the invocation at line 1064, in the iteration it was raised in.    *)
(***************************************************************************)
RECURSIVE TickLoopFinalThrows(_, _, _, _, _)
\* the for loop when cal.createEvent of createFinalEvent_ throws: the
\* iterations before it have saved their records, the iteration itself has
\* deleted its pending event (1020-1024) and has saved nothing
TickLoopFinalThrows(chains, i, st, cal, now) ==
    IF i > Len(chains)
    THEN [store |-> st, cal |-> cal, paths |-> <<>>, created |-> {}, threw |-> FALSE]
    ELSE LET r == TickChain(cal, chains[i], now)
             rest == TickLoopFinalThrows(chains, i + 1, StoreAfter(st, chains[i], r),
                                         r.cal, now)
         IN  IF r.path = "final_created"
             THEN [store |-> st, cal |-> DeletePending(cal, chains[i], now),
                   paths |-> <<<<chains[i].chainId, "final_threw">>>>,
                   created |-> {}, threw |-> TRUE]
             ELSE [rest EXCEPT !.paths = <<<<chains[i].chainId, r.path>>>> \o rest.paths,
                               !.created = r.created \cup rest.created]

\* processHourlyChains_, run by its trigger, with the calendar refusing the
\* final event: the exception leaves the function before line 1076
TickFinalThrows ==
    /\ triggers > 0
    /\ \E chains \in Orders(listHourlyChainStates_(store)) :
          LET r == TickLoopFinalThrows(chains, 1, store, calendar, clock)
          IN  /\ r.threw
              /\ store' = r.store
              /\ calendar' = r.cal
              /\ triggers' = triggers
              /\ last' = [op |-> "tick_threw", paths |-> r.paths, created |-> r.created,
                          listed |-> {chains[i].chainId : i \in 1..Len(chains)}]
    /\ UNCHANGED <<clock, labelled, testRuns, humanDeletes, started, lock, inv>>

FaultNext ==
    \/ (AdvanceClock /\ UNCHANGED plannerVars)
    \/ (IngestLive /\ UNCHANGED plannerVars)
    \/ (IngestTest /\ UNCHANGED plannerVars)
    \/ (Tick /\ UNCHANGED plannerVars)
    \/ (TickFinalThrows /\ UNCHANGED plannerVars)

FaultSpec == Init /\ [][FaultNext]_vars

(***************************************************************************)
(* processHourlyChains_ on a store that holds a malformed record.          *)
(* A property "MAILALERT_HCHAIN:..." whose text is not JSON, or is JSON    *)
(* without the fields of a chain state, is an input of the script: the     *)
(* script never writes one.                                                *)
(***************************************************************************)
\* the key of the malformed record: a chain of no mail of the mailbox
CorruptKey == ChainIdOf(<<"LIVE", 0, <<0, 0, 0, 0, 0, 0, 0, 9>>>>)

\* deleteHourlyChainState_(undefined): the property "MAILALERT_HCHAIN:undefined"
UndefinedKey == ChainIdOf(<<"undefined", 0, <<>>>>)

\* the malformed texts: not JSON; "{}"; a state that lacks blocks
MalformedRecords ==
    {[json |-> FALSE],
     [json |-> TRUE],
     [json |-> TRUE, chainId |-> CorruptKey, status |-> "active", indexCurrent |-> 0,
      currentEventId |-> HourlyEventId(CorruptKey, 0, 0), pendingDeleteEventId |-> NoId]}

WellFormed(st) == "json" \notin DOMAIN st

\* a malformed record appears in the script properties
Corrupt ==
    /\ CorruptKey \notin DOMAIN store
    /\ \E raw \in MalformedRecords :
          store' = [k \in DOMAIN store \cup {CorruptKey} |->
                       IF k = CorruptKey THEN raw ELSE store[k]]
    /\ last' = [op |-> "corrupt"]
    /\ UNCHANGED <<clock, labelled, calendar, triggers, testRuns, humanDeletes,
                   started, lock, inv>>

RECURSIVE TickLoopRaw(_, _, _, _, _)
\* the for loop of processHourlyChains_ over whatever JSON.parse returned.
\* "{}": pendingDeleteEventId and status are undefined, !st.currentEventId
\* holds, and 1031 calls deleteHourlyChainState_(undefined). A state without
\* blocks: 1035 reads st.blocks[st.indexCurrent] of undefined, a TypeError
\* that ends the invocation.
TickLoopRaw(chains, i, st, cal, now) ==
    IF i > Len(chains)
    THEN [store |-> st, cal |-> cal, paths |-> <<>>, created |-> {}, threw |-> FALSE]
    ELSE IF WellFormed(chains[i])
    THEN LET r == TickChain(cal, chains[i], now)
             rest == TickLoopRaw(chains, i + 1, StoreAfter(st, chains[i], r), r.cal, now)
         IN  [rest EXCEPT !.paths = <<<<chains[i].chainId, r.path>>>> \o rest.paths,
                          !.created = r.created \cup rest.created]
    ELSE IF "currentEventId" \notin DOMAIN chains[i]
    THEN LET rest == TickLoopRaw(chains, i + 1,
                                 deleteHourlyChainState_(st, UndefinedKey), cal, now)
         IN  [rest EXCEPT !.paths = <<<<UndefinedKey, "no_current">>>> \o rest.paths]
    ELSE [store |-> st, cal |-> cal,
          paths |-> <<<<chains[i].chainId, "type_error">>>>,
          created |-> {}, threw |-> TRUE]

\* processHourlyChains_, run by its trigger, whatever the store holds
TickRaw ==
    /\ triggers > 0
    /\ \E chains \in Orders(listHourlyChainStates_(store)) :
          LET r == TickLoopRaw(chains, 1, store, calendar, clock)
          IN  /\ store' = r.store
              /\ calendar' = r.cal
              /\ triggers' = IF r.threw THEN triggers
                             ELSE cleanupHourlyChainTrigger_(r.store, triggers)
              /\ last' = [op |-> "tick", paths |-> r.paths, created |-> r.created,
                          threw |-> r.threw]
    /\ UNCHANGED <<clock, labelled, testRuns, humanDeletes, started, lock, inv>>

CorruptNext ==
    \/ (AdvanceClock /\ UNCHANGED plannerVars)
    \/ (IngestLive /\ UNCHANGED plannerVars)
    \/ (Corrupt /\ UNCHANGED plannerVars)
    \/ (TickRaw /\ UNCHANGED plannerVars)

CorruptSpec == Init /\ [][CorruptNext]_vars

(***************************************************************************)
(* A thread that loses its label is found again by the search of           *)
(* checkMailAndCreateTwoEvents (144-150) and ingested a second time.       *)
(***************************************************************************)
\* the label PROCESSED_LABEL_NAME is taken off a thread in Gmail
RemoveLabel ==
    /\ \E t \in labelled : labelled' = labelled \ {t}
    /\ last' = [op |-> "unlabel"]
    /\ UNCHANGED <<clock, store, calendar, triggers, testRuns, humanDeletes,
                   started, lock, inv>>

RepeatNext ==
    \/ (AdvanceClock /\ UNCHANGED plannerVars)
    \/ (IngestLive /\ UNCHANGED plannerVars)
    \/ (Tick /\ UNCHANGED plannerVars)
    \/ (HumanDelete /\ UNCHANGED plannerVars)
    \/ (RemoveLabel /\ UNCHANGED plannerVars)

RepeatSpec == Init /\ [][RepeatNext]_vars

(***************************************************************************)
(* isInQuietHours_ under every configuration of the quiet window           *)
(***************************************************************************)
\* the instants isInQuietHours_ is called with: the first and the last
\* millisecond of every hour of a day
QuietInstants ==
    {2 * MsPerDay + h * MsPerHour + off : h \in 0..23, off \in {0, MsPerHour - 1}}

\* a call of isInQuietHours_(dt) with the configuration quietStart, quietEnd,
\* as the first thing that happens
CallIsInQuietHours ==
    /\ last.op = "init"
    /\ \E quietStart \in 0..MaxQuietHour, quietEnd \in 0..MaxQuietHour,
          dt \in QuietInstants :
          last' = [op |-> "isInQuietHours_", quietStart |-> quietStart,
                   quietEnd |-> quietEnd, dt |-> dt,
                   result |-> isInQuietHoursWith(dt, quietStart, quietEnd)]
    /\ UNCHANGED <<clock, labelled, store, calendar, triggers, testRuns,
                   humanDeletes, started, lock, inv>>

QuietNext == CallIsInQuietHours /\ UNCHANGED plannerVars

QuietSpec == Init /\ [][QuietNext]_vars

(***************************************************************************)
(* ensureHourlyChainTrigger_ and cleanupHourlyChainTrigger_ called on      *)
(* their own, one call after the other, between the runs of the script.    *)
(***************************************************************************)
\* ensureHourlyChainTrigger_()
CallEnsure ==
    /\ triggers' = ensureHourlyChainTrigger_(triggers)
    /\ last' = [op |-> "ensure"]
    /\ UNCHANGED <<clock, labelled, store, calendar, testRuns, humanDeletes,
                   started, lock, inv>>

\* cleanupHourlyChainTrigger_()
CallCleanup ==
    /\ triggers' = cleanupHourlyChainTrigger_(store, triggers)
    /\ last' = [op |-> "cleanup"]
    /\ UNCHANGED <<clock, labelled, store, calendar, testRuns, humanDeletes,
                   started, lock, inv>>

TriggerNext ==
    \/ (AdvanceClock /\ UNCHANGED plannerVars)
    \/ (IngestLive /\ UNCHANGED plannerVars)
    \/ (Tick /\ UNCHANGED plannerVars)
    \/ (HumanDelete /\ UNCHANGED plannerVars)
    \/ (CallEnsure /\ UNCHANGED plannerVars)
    \/ (CallCleanup /\ UNCHANGED plannerVars)

TriggerSpec == Init /\ [][TriggerNext]_vars

(***************************************************************************)
(* One chain driven by its hourly trigger. ScriptApp runs an everyHours(1) *)
(* trigger (1198-1201) once an hour at a minute of its choosing: two       *)
(* consecutive ticks are at most one hour apart.                           *)
(***************************************************************************)
ThreadC == <<7, 3, 0, 0, 0, 0, 0, 0, 0, 3>>

\* a mail received at 08:30, off the hour
HourlyMail == [mode |-> "LIVE", threadId |-> ThreadC,
               receivedAt |-> LocalInstant(2, 8, 30)]

\* the minutes from one run of the trigger to the next
TickGapMinutes == {15, 30, 45, 60}

\* an hour passes before the mail is ingested
HourlyWait ==
    /\ labelled = {}
    /\ clock + MsPerHour <= Epoch0 + MaxWaitHours * MsPerHour
    /\ clock' = clock + MsPerHour
    /\ last' = [op |-> "clock"]
    /\ UNCHANGED <<labelled, store, calendar, triggers, testRuns, humanDeletes,
                   started, lock, inv>>

\* checkMailAndCreateTwoEvents finds the mail: createTwoEventsForMail_, addLabel
HourlyIngest ==
    /\ labelled = {}
    /\ \E r \in {createTwoEventsForMail_(store, calendar, triggers, HourlyMail, clock)} :
          /\ r.did # "threw"
          /\ store' = r.store
          /\ calendar' = r.cal
          /\ triggers' = r.triggers
          /\ last' = [op |-> "ingest", calls |-> <<[baseId |-> r.baseId, did |-> r.did]>>]
          /\ started' = started \cup {r.baseId}
    /\ labelled' = {HourlyMail.threadId}
    /\ UNCHANGED <<clock, testRuns, humanDeletes, lock, inv>>

\* the trigger runs processHourlyChains_ at most an hour after its last run
\* (or after it was created)
TickAfter ==
    /\ triggers > 0
    /\ \E gap \in TickGapMinutes :
          /\ clock + gap * MsPerMinute <= Epoch0 + MaxHourlyHours * MsPerHour
          /\ clock' = clock + gap * MsPerMinute
          /\ \E chains \in Orders(listHourlyChainStates_(store)) :
                \E r \in {TickLoop(chains, 1, store, calendar, clock + gap * MsPerMinute)} :
                    /\ store' = r.store
                    /\ calendar' = r.cal
                    /\ triggers' = cleanupHourlyChainTrigger_(r.store, triggers)
                    /\ last' = [op |-> "tick", paths |-> r.paths, created |-> r.created]
    /\ UNCHANGED <<labelled, testRuns, humanDeletes, started, lock, inv>>

HourlyNext ==
    \/ (HourlyWait /\ UNCHANGED plannerVars)
    \/ (HourlyIngest /\ UNCHANGED plannerVars)
    \/ (TickAfter /\ UNCHANGED plannerVars)

HourlySpec == Init /\ [][HourlyNext]_vars

(***************************************************************************)
(* One chain whose ticks come when they come: the trigger may run on time, *)
(* hours late, or more than FIND_WINDOW_HOURS after its last run.          *)
(***************************************************************************)
\* the hours from one run of processHourlyChains_ to the next
LateGapHours == {1, 4, 49}

TickLate ==
    /\ triggers > 0
    /\ \E gap \in LateGapHours :
          /\ clock + gap * MsPerHour <= Epoch0 + MaxLateHours * MsPerHour
          /\ clock' = clock + gap * MsPerHour
          /\ \E chains \in Orders(listHourlyChainStates_(store)) :
                \E r \in {TickLoop(chains, 1, store, calendar, clock + gap * MsPerHour)} :
                    /\ store' = r.store
                    /\ calendar' = r.cal
                    /\ triggers' = cleanupHourlyChainTrigger_(r.store, triggers)
                    /\ last' = [op |-> "tick", paths |-> r.paths, created |-> r.created]
    /\ UNCHANGED <<labelled, testRuns, humanDeletes, started, lock, inv>>

LateNext ==
    \/ (HourlyWait /\ UNCHANGED plannerVars)
    \/ (HourlyIngest /\ UNCHANGED plannerVars)
    \/ (TickLate /\ UNCHANGED plannerVars)
    \/ (HumanDelete /\ UNCHANGED plannerVars)

LateSpec == Init /\ [][LateNext]_vars

(***************************************************************************)
(* The entry point with all its exits: overlapping invocations of          *)
(* checkMailAndCreateTwoEvents, and runs that find no mail.                *)
(***************************************************************************)
LockNext ==
    \/ (ConcAdvanceClock /\ UNCHANGED plannerVars)
    \/ \E s \in Slots :
          \/ (LockBusy(s) /\ UNCHANGED plannerVars)
          \/ (BeginIngestLive(s) /\ UNCHANGED plannerVars)
          \/ (BeginIngestTest(s) /\ UNCHANGED plannerVars)
          \/ (BeginNoMail(s) /\ UNCHANGED plannerVars)
          \/ (IngestLong(s) /\ UNCHANGED plannerVars)
          \/ (IngestCheck(s) /\ UNCHANGED plannerVars)
          \/ (IngestSave(s) /\ UNCHANGED plannerVars)
          \/ (IngestEnsureRead(s) /\ UNCHANGED plannerVars)
          \/ (IngestEnsureWrite(s) /\ UNCHANGED plannerVars)
          \/ (IngestLabel(s) /\ UNCHANGED plannerVars)
          \/ (IngestReturn(s) /\ UNCHANGED plannerVars)

LockSpec == Init /\ [][LockNext]_vars

(***************************************************************************)
(* deleteAllTestAlerts, run by hand from the editor, applied to bounded    *)
(* inputs. The function compares instants with a range of 180 days on      *)
(* either side of now, which 32-bit milliseconds cannot span: the instants *)
(* of this specification are in hours, and the function takes the length   *)
(* of a day in the unit of its instants.                                   *)
(***************************************************************************)
\* the mode in the marker of an event ("MAILALERT_ID: TEST|...") and in the
\* key of a chain state ("MAILALERT_HCHAIN:TEST|...")
ModeOfEvent(e) == IF e.id[2] = "LONG" THEN e.id[1][1] ELSE e.id[1][1][1]

ModeOfKey(chainId) == chainId[1][1]

\* cal.getEvents(now - 180 days, now + 180 days): start < to and end > from
GetEventsAround(cal, now, perDay) ==
    {e \in BagToSet(cal) :
        /\ (e.start - now) \div perDay < DELETE_WINDOW_DAYS
        /\ (now - e.end) \div perDay < DELETE_WINDOW_DAYS}

\* mutant: every marker of the script is matched
deleteAllAlerts(st, cal, trg, now, perDay) ==
    LET events == GetEventsAround(cal, now, perDay)
    IN  [store |-> EmptyStore,
         cal |-> [e \in BagToSet(cal) \ events |-> cal[e]],
         triggers |-> cleanupHourlyChainTrigger_(EmptyStore, trg),
         deleted |-> Cardinality(events),
         chainStatesDeleted |-> Cardinality(DOMAIN st)]

\* deleteAllTestAlerts (268-320): the events of the range whose description
\* holds "MAILALERT_ID: TEST|" are deleted, then the properties whose key
\* starts with "MAILALERT_HCHAIN:TEST|", then cleanupHourlyChainTrigger_;
\* perDay is the length of a day in the unit of the instants
deleteAllTestAlerts(st, cal, trg, now, perDay) ==
    LET events == GetEventsAround(cal, now, perDay)
        matched == {e \in events : ModeOfEvent(e) = "TEST"}
        keys == {c \in DOMAIN st : ModeOfKey(c) = "TEST"}
        kept == [c \in DOMAIN st \ keys |-> st[c]]
    IN  [store |-> kept,
         cal |-> [e \in BagToSet(cal) \ matched |-> cal[e]],
         triggers |-> cleanupHourlyChainTrigger_(kept, trg),
         deleted |-> Cardinality(matched),
         chainStatesDeleted |-> Cardinality(keys)]

\* the instant of the run, in hours
CleanerNow == (MaxAgeDays + 1) * HoursPerDay

\* the mails whose alerts are on the calendar: one ingested in LIVE mode, one
\* made up by a TEST run
CleanerMails ==
    {[mode |-> "LIVE", threadId |-> ThreadA, receivedAt |-> Epoch0 - MsPerHour],
     [mode |-> "TEST", threadId |-> ThreadA, receivedAt |-> Epoch0]}

\* the chain states the ingestion of the mails persists
CleanerRecords ==
    UNION {{r.store[c] : c \in DOMAIN r.store} :
              r \in {createTwoEventsForMail_(EmptyStore, EmptyBag, 0, mail, Epoch0) :
                         mail \in CleanerMails}}

\* the markers of the LONG, block and final events of the chains
CleanerIds ==
    UNION {{LongIdOf(st.baseId), st.currentEventId,
            FinalEventId(st.chainId, parseISO(st.expiresAt))} : st \in CleanerRecords}

\* how many hours before the run an event ended: in the future, just now,
\* around the edge of the range, and long ago
CleanerAges ==
    {-HoursPerDay, 1, DELETE_WINDOW_DAYS * HoursPerDay - 1, DELETE_WINDOW_DAYS * HoursPerDay,
     DELETE_WINDOW_DAYS * HoursPerDay + 1, MaxAgeDays * HoursPerDay}

\* events of one hour
CleanerEvents ==
    {[id |-> id, start |-> CleanerNow - age - 1, end |-> CleanerNow - age] :
        id \in CleanerIds, age \in CleanerAges}

CleanerStart ==
    /\ PlannerIdle
    /\ clock = CleanerNow
    /\ labelled = {}
    /\ \E recs \in SUBSET CleanerRecords :
          store = [c \in {st.chainId : st \in recs} |->
                      CHOOSE st \in recs : st.chainId = c]
    /\ \E e1, e2 \in CleanerEvents \cup {NoEvent} :
          calendar = SetToBag({e1, e2} \ {NoEvent})
    /\ triggers \in {0, 1}
    /\ testRuns = 0
    /\ humanDeletes = 0
    /\ last = [op |-> "init"]
    /\ started = {}
    /\ lock = 0
    /\ inv = [s \in Slots |-> Idle]

DeleteAllTestAlerts ==
    /\ last.op = "init"
    /\ \E r \in {deleteAllTestAlerts(store, calendar, triggers, clock, HoursPerDay)} :
          /\ store' = r.store
          /\ calendar' = r.cal
          /\ triggers' = r.triggers
          /\ last' = [op |-> "deleteAllTestAlerts", deleted |-> r.deleted,
                      chainStatesDeleted |-> r.chainStatesDeleted]
    /\ UNCHANGED <<clock, labelled, testRuns, humanDeletes, started, lock, inv>>

CleanerNext == DeleteAllTestAlerts /\ UNCHANGED plannerVars

CleanerSpec == CleanerStart /\ [][CleanerNext]_vars

(***************************************************************************)
(* Invocations that abort. An Apps Script invocation can end at any        *)
(* statement (an exception of a service, the execution time limit); what   *)
(* it has written to the calendar and to the script properties so far      *)
(* stays, what it holds in memory is lost.                                 *)
(***************************************************************************)
\* where an iteration of processHourlyChains_ ends: at its first statement
\* (1018), after the pending event was deleted (1022), after the next block
\* event or the final event was created (1053, 1064) and before the save
TickCrashPoints == {"start", "pending_deleted", "event_created"}

\* the calendar an iteration leaves behind when it ends at the point
IterationCrash(cal, st, now, point) ==
    IF point = "start" THEN cal
    ELSE IF point = "pending_deleted" THEN DeletePending(cal, st, now)
    ELSE TickChain(cal, st, now).cal

RECURSIVE TickLoopCrashPiecewise(_, _, _, _, _, _, _)
\* mutant: the advanced index is persisted before the event is created
TickLoopCrashPiecewise(chains, i, st, cal, now, at, point) ==
    IF i > Len(chains)
    THEN [store |-> st, cal |-> cal, paths |-> <<>>, created |-> {}]
    ELSE IF i = at
    THEN [store |-> IF point = "event_created"
                    THEN saveHourlyChainState_(st,
                             [chains[i] EXCEPT !.indexCurrent = NextIndex(chains[i])])
                    ELSE st,
          cal |-> cal,
          paths |-> <<<<chains[i].chainId, point>>>>, created |-> {}]
    ELSE LET r == TickChain(cal, chains[i], now)
             rest == TickLoopCrashPiecewise(chains, i + 1, StoreAfter(st, chains[i], r),
                                            r.cal, now, at, point)
         IN  [rest EXCEPT !.paths = <<<<chains[i].chainId, r.path>>>> \o rest.paths,
                          !.created = r.created \cup rest.created]

RECURSIVE TickLoopCrash(_, _, _, _, _, _, _)
\* the for loop when the invocation ends in iteration number at, or, with at
\* past the last chain, after the loop and before cleanupHourlyChainTrigger_
TickLoopCrash(chains, i, st, cal, now, at, point) ==
    IF i > Len(chains)
    THEN [store |-> st, cal |-> cal, paths |-> <<>>, created |-> {}]
    ELSE IF i = at
    THEN [store |-> st, cal |-> IterationCrash(cal, chains[i], now, point),
          paths |-> <<<<chains[i].chainId, point>>>>, created |-> {}]
    ELSE LET r == TickChain(cal, chains[i], now)
             rest == TickLoopCrash(chains, i + 1, StoreAfter(st, chains[i], r),
                                   r.cal, now, at, point)
         IN  [rest EXCEPT !.paths = <<<<chains[i].chainId, r.path>>>> \o rest.paths,
                          !.created = r.created \cup rest.created]

\* the block and final events an aborted invocation left behind: a second
\* copy, a block event no record names, a final event of an active chain
\* (an invocation is aborted after it created an event only while there is
\* none of them, which keeps the calendar finite)
Leftovers(cal, st) ==
    {e \in BagToSet(cal) :
        /\ e.id[2] \in {"B", "FINAL"}
        /\ \/ CopiesIn(e, cal) > 1
           \/ e.id[1] \notin DOMAIN st /\ e.id[2] = "B"
           \/ /\ e.id[1] \in DOMAIN st
              /\ IF e.id[2] = "B"
                 THEN e.id \notin {st[e.id[1]].currentEventId,
                                   st[e.id[1]].pendingDeleteEventId}
                 ELSE st[e.id[1]].status = "active"}

\* the iteration on st would create an event
CreatesNewEvent(cal, st, now) == TickChain(cal, st, now).created # {}

\* processHourlyChains_ aborts
TickCrash ==
    /\ triggers > 0
    /\ \E chains \in Orders(listHourlyChainStates_(store)) :
          \E at \in 1..(Len(chains) + 1), point \in TickCrashPoints :
              /\ at > Len(chains) => point = "start"
              /\ point = "event_created" =>
                    /\ Leftovers(calendar, store) = {}
                    /\ CreatesNewEvent(TickLoopCrash(chains, 1, store, calendar, clock,
                                                  at, "start").cal,
                                    chains[at], clock)
              /\ LET r == TickLoopCrash(chains, 1, store, calendar, clock, at, point)
                 IN  /\ store' = r.store
                     /\ calendar' = r.cal
                     /\ last' = [op |-> "tick_crash", paths |-> r.paths,
                                 created |-> r.created]
    /\ UNCHANGED <<clock, labelled, triggers, testRuns, humanDeletes, started, lock, inv>>

\* where startHourlyChainForMail_ ends: before createHourlyBlockEvent_ (978),
\* before saveHourlyChainState_ (998), before ensureHourlyChainTrigger_ (999),
\* and after it, before thread.addLabel (187)
StartCrashPoints == {"long_created", "block_created", "state_saved", "trigger_ensured"}

\* checkMailAndCreateTwoEvents aborts on the mail, in a call of
\* startHourlyChainForMail_ that starts a chain; the thread is not labelled
IngestCrash ==
    /\ labelled = {}
    /\ \E point \in StartCrashPoints :
          LET l == LongStep(calendar, HourlyMail, clock)
              r == createTwoEventsForMail_(store, calendar, triggers, HourlyMail, clock)
          IN  /\ r.did = "started"
              /\ point = "block_created" =>
                    Leftovers(calendar, store) = {}
              /\ calendar' = IF point = "long_created" THEN l.cal ELSE r.cal
              /\ store' = IF point \in {"state_saved", "trigger_ensured"}
                          THEN r.store ELSE store
              /\ triggers' = IF point = "trigger_ensured" THEN r.triggers ELSE triggers
              /\ last' = [op |-> "ingest_crash", point |-> point]
              /\ started' = started \cup {r.baseId}
    /\ UNCHANGED <<clock, labelled, testRuns, humanDeletes, lock, inv>>

CrashNext ==
    \/ (AdvanceClock /\ UNCHANGED plannerVars)
    \/ (HourlyIngest /\ UNCHANGED plannerVars)
    \/ (Tick /\ UNCHANGED plannerVars)
    \/ (TickCrash /\ UNCHANGED plannerVars)
    \/ (IngestCrash /\ UNCHANGED plannerVars)

CrashSpec == Init /\ [][CrashNext]_vars

(***************************************************************************)
(* Properties of the chain driver                                          *)
(***************************************************************************)
\* the chain ids the mails and the test runs of the model can give
PossibleChainIds ==
    {ChainIdOf(buildBaseId_("LIVE", m.threadId, m.receivedAt, 0)) : m \in Mailbox}
    \cup {ChainIdOf(buildBaseId_("TEST", m.threadId, t, t)) :
             m \in Mailbox, t \in TestRunInstants}

InCalendar(cal, id) == \E e \in BagToSet(cal) : e.id = id

\* the step adds no block event and no final event of chain c to the calendar
NoNewEventsOf(c) ==
    \A e \in BagToSet(calendar') :
        e.id[1] = c => CopiesIn(e, calendar') <= CopiesIn(e, calendar)

\* the step leaves the record of chain c and its calendar events alone
ChainUntouched(c) ==
    /\ (c \in DOMAIN store) = (c \in DOMAIN store')
    /\ c \in DOMAIN store => store'[c] = store[c]
    /\ NoNewEventsOf(c)
    /\ \A e \in BagToSet(calendar) :
          e.id[1] = c => CopiesIn(e, calendar') = CopiesIn(e, calendar)

PathsOf(l) == {l.paths[i][2] : i \in 1..Len(l.paths)}

\* C1, liveness: every persisted chain is deleted from the store in the end
\* (the mails and the test runs are finitely many, so from some point on no
\* chain is persisted). By C1_IndexOrder a record is deleted only from status
\* final_cleanup, which it enters only from the last index: a chain persisted
\* at index 0 reaches final_cleanup and is then deleted.
C1_Completes == <>[](DOMAIN store = {})

\* C1, order: a chain starts active at index 0; a step keeps the index or
\* raises it by one, a tick at or past the current block's start raises it (or,
\* on the last block, turns the chain to final_cleanup), and only the last
\* index turns to final_cleanup.
C1_IndexOrder ==
    [][\A c \in PossibleChainIds :
          /\ (c \notin DOMAIN store /\ c \in DOMAIN store') =>
                (store'[c].indexCurrent = 0 /\ store'[c].status = "active")
          /\ (c \in DOMAIN store /\ c \in DOMAIN store') =>
                LET a == store[c]
                    b == store'[c]
                    last_ == Len(a.blocks) - 1
                IN  /\ b.blocks = a.blocks
                    /\ \/ b.indexCurrent = a.indexCurrent
                       \/ (b.indexCurrent = a.indexCurrent + 1 /\ b.status = "active")
                    /\ a.status = "final_cleanup" => b = a
                    /\ b.status = "final_cleanup" => b.indexCurrent = last_
                    /\ (last'.op = "tick" /\ a.status = "active"
                        /\ clock >= parseISO(a.blocks[a.indexCurrent + 1].start)) =>
                          IF a.indexCurrent < last_
                          THEN b.indexCurrent = a.indexCurrent + 1
                          ELSE b.status = "final_cleanup"
          /\ (c \in DOMAIN store /\ c \notin DOMAIN store') =>
                store[c].status = "final_cleanup"
      ]_vars

\* C1, pending (as claimed): after a tick, a pendingDeleteEventId that was
\* non-empty is empty.
C1_PendingEmptyAfterTick ==
    [][last'.op = "tick" =>
          \A c \in DOMAIN store \cap DOMAIN store' :
              store[c].pendingDeleteEventId # NoId =>
                  store'[c].pendingDeleteEventId = NoId
      ]_vars

\* C1, pending (amended): the tick deletes the event a non-empty
\* pendingDeleteEventId names, and the field no longer names it afterwards: it
\* is empty, or names the event that the same tick superseded.
C1_PendingRetired ==
    [][last'.op = "tick" =>
          \A c \in DOMAIN store :
              LET p == store[c].pendingDeleteEventId
              IN  p # NoId =>
                    /\ InCalendar(calendar, p)
                    /\ ~InCalendar(calendar', p)
                    /\ c \in DOMAIN store' =>
                          /\ store'[c].pendingDeleteEventId # p
                          /\ store'[c].pendingDeleteEventId
                                \in {NoId, store[c].currentEventId}
      ]_vars

C2_Cancellation ==
    [][last'.op = "tick" =>
          \A c \in DOMAIN store :
              (/\ store[c].status = "active"
               /\ ~InCalendar(calendar, store[c].currentEventId)) =>
                  /\ c \notin DOMAIN store'
                  /\ NoNewEventsOf(c)
      ]_vars

\* a tick has just cancelled a chain whose event a human deleted
C2_Witness ==
    /\ last.op = "tick"
    /\ "cancelled" \in PathsOf(last)
    /\ last.created = {}
    /\ humanDeletes > 0

\* C3 (as claimed): a call of startHourlyChainForMail_ with a baseId of an
\* earlier call changes neither the chain's record nor its calendar events.
C3_SecondCallNoOpEver ==
    [][last'.op = "ingest" =>
          \A i \in 1..Len(last'.calls) :
              last'.calls[i].baseId \in started =>
                  ChainUntouched(ChainIdOf(last'.calls[i].baseId))
      ]_vars

\* C3 (amended): a call of startHourlyChainForMail_ with the baseId of a
\* chain whose record is still persisted changes neither the record nor the
\* chain's calendar events, and arms no trigger.
C3_SecondCallNoOpWhilePersisted ==
    [][last'.op = "ingest" =>
          /\ \A i \in 1..Len(last'.calls) :
                ChainIdOf(last'.calls[i].baseId) \in DOMAIN store =>
                    /\ last'.calls[i].baseId \in started
                    /\ ChainUntouched(ChainIdOf(last'.calls[i].baseId))
          /\ (\A i \in 1..Len(last'.calls) :
                ChainIdOf(last'.calls[i].baseId) \in DOMAIN store) =>
                    (store' = store /\ triggers' = triggers)
      ]_vars

\* startHourlyChainForMail_ has just found the chain of its baseId persisted
C3_Witness ==
    /\ last.op = "ingest"
    /\ \E i \in 1..Len(last.calls) :
          /\ last.calls[i].did = "exists"
          /\ ChainIdOf(last.calls[i].baseId) \in DOMAIN store

(***************************************************************************)
(* Properties of overlapping invocations (ConcSpec)                        *)
(***************************************************************************)
\* C4 (as claimed): the calendar never holds two events with the same block
\* marker chainId|B<index>|<start>.
C4_NoTwoEventsWithOneMarker ==
    \A e \in BagToSet(calendar) :
        e.id[2] = "B" =>
            /\ CopiesIn(e, calendar) = 1
            /\ \A f \in BagToSet(calendar) : f.id = e.id => f = e

\* C5 (as claimed): once all invocations have completed, a trigger exists if
\* a chain state is persisted, and none exists if a tick completed last and
\* left no chain state.
C5_TriggerLifecycle ==
    AllIdle =>
        /\ DOMAIN store # {} => triggers > 0
        /\ (last = [op |-> "done", kind |-> "tick"] /\ DOMAIN store = {}) => triggers = 0

\* C6 (as claimed): no two invocations are in their bodies at the same time,
\* and an invocation in its body holds the script lock.
C6_MutualExclusion ==
    /\ \A s, t \in Slots : (inv[s] # Idle /\ inv[t] # Idle) => s = t
    /\ \A s \in Slots : inv[s] # Idle => lock = s

\* the planner run has the arguments createTwoEventsForMail_ passes for a
\* mail received before now: longStart = now + EVENT1_START_PLUS_MINUTES,
\* expiresAt = receivedAt + ACTIVE_WINDOW_HOURS, the LONG event does not end
\* before it starts; and the chain is started
ChainOfAMail ==
    /\ pPhase = "packed"
    /\ pInterval = HOURLY_INTERVAL_HOURS
    /\ ~LongEventThrows(pLongStart, pExpiresAt)
    /\ pExpiresAt - ACTIVE_WINDOW_HOURS * MsPerHour
          <= pLongStart - EVENT1_START_PLUS_MINUTES * MsPerMinute
    /\ Len(pBlocks) > 0

\* C12 (as claimed): no reminder of a block event and no reminder of the
\* final event of a chain falls at an instant whose local hour is in the
\* quiet window.
C12_NoReminderInQuietHours ==
    ChainOfAMail =>
        /\ \A b \in 1..Len(pBlocks) :
              \A t \in BlockReminderInstants(pBlocks[b]) : ~isInQuietHours_(t)
        /\ \A t \in FinalReminderInstants(pExpiresAt) : ~isInQuietHours_(t)

(***************************************************************************)
(* Properties of the packer on arbitrary increasing sequences (PackerSpec) *)
(***************************************************************************)
\* the chunk of block b: signals (b-1)*max+1 .. b*max, as far as they exist
ChunkFirst(b) == (b - 1) * HOURLY_BLOCK_MAX_SIGNALS + 1

ChunkLast(b, n) ==
    IF b * HOURLY_BLOCK_MAX_SIGNALS < n THEN b * HOURLY_BLOCK_MAX_SIGNALS ELSE n

\* C11: every block has between 1 and HOURLY_BLOCK_MAX_SIGNALS reminders, one
\* per signal of its chunk; they are non-negative, non-increasing and end in
\* 0; the block starts at the last signal of its chunk; and there are
\* ceil(signals / HOURLY_BLOCK_MAX_SIGNALS) blocks.
C11_BlockShape ==
    pPhase = "packed" =>
        LET n == Len(pSignals)
        IN  /\ StrictlyIncreasing(pSignals)
            /\ Len(pBlocks) = (n + HOURLY_BLOCK_MAX_SIGNALS - 1) \div HOURLY_BLOCK_MAX_SIGNALS
            /\ \A b \in 1..Len(pBlocks) :
                  LET r == pBlocks[b].reminders
                  IN  /\ Len(r) = ChunkLast(b, n) - ChunkFirst(b) + 1
                      /\ Len(r) \in 1..HOURLY_BLOCK_MAX_SIGNALS
                      /\ \A j \in 1..Len(r) : r[j] \in Nat
                      /\ \A j \in 1..(Len(r) - 1) : r[j] >= r[j + 1]
                      /\ r[Len(r)] = 0
                      /\ parseISO(pBlocks[b].start) = pSignals[ChunkLast(b, n)]

\* packed: a full block, then a shorter one in which rounding gives two
\* signals the same reminder
C11_Witness ==
    /\ pPhase = "packed"
    /\ Len(pBlocks) >= 2
    /\ Len(pBlocks[1].reminders) = HOURLY_BLOCK_MAX_SIGNALS
    /\ LET r == pBlocks[Len(pBlocks)].reminders
       IN  /\ Len(r) \in 2..(HOURLY_BLOCK_MAX_SIGNALS - 1)
           /\ \E j \in 1..(Len(r) - 1) : r[j] = r[j + 1]


(***************************************************************************)
(* The final warning (LiveSpec)                                            *)
(* createTwoEventsForMail_ creates the LONG event of a notification from   *)
(* longStart to expiresAt right before it calls startHourlyChainForMail_,  *)
(* and nothing deletes a LONG event: the LONG events of the calendar are   *)
(* the arguments startHourlyChainForMail_ was called with.                 *)
(***************************************************************************)
\* the calls of startHourlyChainForMail_ so far, as their LONG events
CallsSoFar == {e \in BagToSet(calendar) : e.id[2] = "LONG" /\ e.id[1] \in started}

\* the calendar holds the final event of the call, starting at its deadline
FinalWarningGiven(call) ==
    \E f \in BagToSet(calendar) :
        /\ f.id = FinalEventId(ChainIdOf(call.id[1]), call.end)
        /\ f.start = call.end

\* C13 (as claimed): with no event deleted by hand and ticks that keep
\* coming, every notification passed to startHourlyChainForMail_ has, from
\* some point on, a final event starting at its deadline in the calendar.
C13_FinalWarningGuaranteed ==
    <>[](\A call \in CallsSoFar : FinalWarningGiven(call))

\* C13 (amended): the same for every notification whose range gives at least
\* one signal; a call with no signal starts no chain and gets no final event.
C13_FinalWarningOfStartedChain ==
    <>[](\A call \in CallsSoFar :
            Len(buildHourlySignals_(call.start, call.end)) > 0 =>
                FinalWarningGiven(call))

\* a tick has just created the final event of a chain, at the deadline
C13_Witness ==
    /\ last.op = "tick"
    /\ "final_created" \in PathsOf(last)
    /\ \E call \in CallsSoFar :
          /\ FinalEventId(ChainIdOf(call.id[1]), call.end) \in last.created
          /\ FinalWarningGiven(call)

(***************************************************************************)
(* The final event that cannot be created (FaultSpec)                      *)
(***************************************************************************)
\* C14: a tick in which the creation of the final event of a chain fails
\* deletes the record of that chain, runs its iteration on every other chain
\* it listed, and ends with cleanupHourlyChainTrigger_.
C14_FinalEventFailSafe ==
    [][last'.op = "tick_threw" =>
          LET failed == {last'.paths[i][1] :
                            i \in {j \in 1..Len(last'.paths) :
                                      last'.paths[j][2] = "final_threw"}}
          IN  /\ \A c \in failed : c \notin DOMAIN store'
              /\ {last'.paths[i][1] : i \in 1..Len(last'.paths)} = last'.listed
              /\ triggers' = cleanupHourlyChainTrigger_(store', triggers)
      ]_vars

(***************************************************************************)
(* Malformed records in the store (CorruptSpec)                            *)
(***************************************************************************)
\* the store without the malformed record
WithoutCorrupt(st) == [k \in DOMAIN st \ {CorruptKey} |-> st[k]]

\* C15: a tick on a store that holds a malformed record does not abort,
\* leaves the calendar and the well-formed records as some tick on the store
\* without that record would, and the malformed record is gone afterwards.
C15_MalformedDiscarded ==
    [][(last'.op = "tick" /\ CorruptKey \in DOMAIN store) =>
          /\ ~last'.threw
          /\ \E chains \in Orders(listHourlyChainStates_(WithoutCorrupt(store))) :
                LET r == TickLoop(chains, 1, WithoutCorrupt(store), calendar, clock)
                IN  /\ WithoutCorrupt(store') = r.store
                    /\ calendar' = r.cal
          /\ CorruptKey \notin DOMAIN store'
      ]_vars

(***************************************************************************)
(* A notification ingested twice in LIVE mode (RepeatSpec)                 *)
(***************************************************************************)
\* whenever the run happens and wherever in its minute the mail was received,
\* the LIVE fingerprint of a mail is the same
SameLiveFingerprint ==
    \A m \in Mailbox : \A late \in {0, 1, MsPerMinute - 1} :
        buildBaseId_("LIVE", m.threadId, m.receivedAt + late, clock)
            = buildBaseId_("LIVE", m.threadId, m.receivedAt, Epoch0)

\* the step persists no new or changed record of chain c
NoNewStateOf(c) ==
    c \in DOMAIN store' => (c \in DOMAIN store /\ store'[c] = store[c])

\* the step adds no block-0 event of chain c to the calendar
NoNewBlock0Of(c) ==
    \A e \in BagToSet(calendar') :
        (e.id[1] = c /\ e.id[2] = "B" /\ e.id[3] = 0) =>
            CopiesIn(e, calendar') <= CopiesIn(e, calendar)

\* C16 (as claimed): the LIVE fingerprint does not depend on the time of the
\* run, and a second LIVE ingestion of a notification persists no second chain
\* state and creates no second block-0 event.
C16_SecondIngestionAddsNothing ==
    [][/\ SameLiveFingerprint
       /\ last'.op = "ingest" =>
             \A i \in 1..Len(last'.calls) :
                 last'.calls[i].baseId \in started =>
                     /\ NoNewStateOf(ChainIdOf(last'.calls[i].baseId))
                     /\ NoNewBlock0Of(ChainIdOf(last'.calls[i].baseId))
      ]_vars

\* C16 (amended): the LIVE fingerprint does not depend on the time of the
\* run, and a second LIVE ingestion of a notification whose chain state is
\* still persisted persists no second chain state and creates no second
\* block-0 event.
C16_SecondIngestionWhilePersisted ==
    [][/\ SameLiveFingerprint
       /\ last'.op = "ingest" =>
             \A i \in 1..Len(last'.calls) :
                 (/\ last'.calls[i].baseId \in started
                  /\ ChainIdOf(last'.calls[i].baseId) \in DOMAIN store) =>
                     /\ NoNewStateOf(ChainIdOf(last'.calls[i].baseId))
                     /\ NoNewBlock0Of(ChainIdOf(last'.calls[i].baseId))
      ]_vars

\* a LIVE run has just ingested a notification a second time, at another
\* time of day than the first, and found its chain persisted
C16_Witness ==
    /\ last.op = "ingest"
    /\ \E i \in 1..Len(last.calls) :
          /\ last.calls[i].did = "exists"
          /\ last.calls[i].baseId[1] = "LIVE"
          /\ last.calls[i].baseId \in started
          /\ ChainIdOf(last.calls[i].baseId) \in DOMAIN store
          /\ store[ChainIdOf(last.calls[i].baseId)].longStart
                # toISOString(addMinutes_(clock, EVENT1_START_PLUS_MINUTES))

(***************************************************************************)
(* Fingerprints of test runs (Spec)                                        *)
(***************************************************************************)
\* C17: the baseId of a TEST invocation differs from the baseId of every
\* earlier invocation, so the invocation starts a chain of its own, and it
\* differs from the LIVE baseId of every mail.
C17_TestFingerprintsDistinct ==
    [][last'.op = "ingest" =>
          \A i \in 1..Len(last'.calls) :
              last'.calls[i].baseId[1] = "TEST" =>
                  /\ last'.calls[i].baseId \notin started
                  /\ last'.calls[i].did = "started"
                  /\ \A m \in Mailbox :
                        last'.calls[i].baseId
                            # buildBaseId_("LIVE", m.threadId, m.receivedAt, clock)
      ]_vars

(***************************************************************************)
(* A notification without signals (RepeatSpec)                             *)
(***************************************************************************)
\* the mail a LIVE run at instant now ingests under the fingerprint baseId
LiveMailOf(baseId, now) ==
    CHOOSE mail \in {[mode |-> "LIVE", threadId |-> m.threadId,
                      receivedAt |-> m.receivedAt] : m \in Mailbox} :
        PlanOf(mail, now).baseId = baseId

\* the range of the call gives no signal
NoSignalsFor(baseId, now) ==
    LET p == PlanOf(LiveMailOf(baseId, now), now)
    IN  Len(buildHourlySignals_(p.longStart, p.expiresAt)) = 0

\* C18: a call of startHourlyChainForMail_ whose range gives no signal
\* returns normally, persists no chain state and creates no block event; a
\* run in which every call is such a call leaves the store and the triggers
\* as they were.
C18_NoSignalsNoEscalation ==
    [][last'.op = "ingest" =>
          /\ \A i \in 1..Len(last'.calls) :
                (/\ last'.calls[i].did # "threw"
                 /\ ChainIdOf(last'.calls[i].baseId) \notin DOMAIN store
                 /\ NoSignalsFor(last'.calls[i].baseId, clock)) =>
                    /\ last'.calls[i].did = "skip"
                    /\ ChainIdOf(last'.calls[i].baseId) \notin DOMAIN store'
                    /\ NoNewEventsOf(ChainIdOf(last'.calls[i].baseId))
          /\ (\A i \in 1..Len(last'.calls) :
                /\ last'.calls[i].did # "threw"
                /\ NoSignalsFor(last'.calls[i].baseId, clock)) =>
                    (store' = store /\ triggers' = triggers)
      ]_vars

\* a run has just ingested one notification whose range gives no signal,
\* with no chain persisted and no trigger armed
C18_Witness ==
    /\ last.op = "ingest"
    /\ Len(last.calls) = 1
    /\ last.calls[1].did = "skip"
    /\ NoSignalsFor(last.calls[1].baseId, clock)
    /\ DOMAIN store = {}
    /\ triggers = 0

(***************************************************************************)
(* The quiet window under every configuration (QuietSpec)                  *)
(***************************************************************************)
\* C19: isInQuietHours_(t) holds exactly if the local hour of t is in
\* [QUIET_HOUR_START, 24) or in [0, QUIET_HOUR_END), whatever the two bounds.
C19_QuietHoursIff ==
    last.op = "isInQuietHours_" =>
        (last.result <=>
            \/ LocalHourOf(last.dt) \in {h \in 0..23 : last.quietStart <= h}
            \/ LocalHourOf(last.dt) \in {h \in 0..23 : h < last.quietEnd})

\* isInQuietHours_ has just answered true for the last hour of the morning
\* part of the window 23:00-07:00, which wraps over midnight
C19_Witness ==
    /\ last.op = "isInQuietHours_"
    /\ last.quietStart = QUIET_HOUR_START
    /\ last.quietEnd = QUIET_HOUR_END
    /\ LocalHourOf(last.dt) = QUIET_HOUR_END - 1
    /\ last.result

(***************************************************************************)
(* The two trigger functions, called in sequence (TriggerSpec)             *)
(***************************************************************************)
\* C20: whatever the store holds and in whatever order the two functions are
\* called, there is at most one processHourlyChains_ trigger; the second of
\* two calls in a row of the same function changes nothing; and
\* cleanupHourlyChainTrigger_ leaves the trigger alone while a chain state
\* is persisted.
C20_TriggerCallsIdempotent ==
    [][/\ triggers <= 1 /\ triggers' <= 1
       /\ (last.op = "ensure" /\ last'.op = "ensure") => triggers' = triggers
       /\ (last.op = "cleanup" /\ last'.op = "cleanup") => triggers' = triggers
       /\ (last'.op = "cleanup" /\ DOMAIN store # {}) => triggers' = triggers
       /\ last'.op = "ensure" => triggers' = 1
       /\ (last'.op = "cleanup" /\ DOMAIN store = {}) => triggers' = 0
      ]_vars

\* cleanupHourlyChainTrigger_ has just been called with a chain state
\* persisted and its trigger armed
C20_Witness ==
    /\ last.op = "cleanup"
    /\ DOMAIN store # {}
    /\ triggers = 1

(***************************************************************************)
(* Signals and the events that carry them (HourlySpec)                     *)
(***************************************************************************)
\* the signals of block number index (from 0) of a chain state, as a set
SignalsOfBlock(st, index) ==
    {ImpliedSignals(st.blocks[index + 1])[j] :
        j \in 1..Len(st.blocks[index + 1].reminders)}

\* the calendar holds the event of block number index of the chain
BlockEventIn(cal, st, index) ==
    InCalendar(cal, HourlyEventId(st.chainId, index,
                                  parseISO(st.blocks[index + 1].start)))

\* C21: with ticks at most an hour apart, every signal of a chain's plan
\* that passes between two ticks finds the event of its block in the calendar.
C21_EverySignalFires ==
    [][last'.op = "tick" =>
          \A c \in DOMAIN store :
              \A index \in 0..(Len(store[c].blocks) - 1) :
                  \A s \in SignalsOfBlock(store[c], index) :
                      (clock < s /\ s < clock') => BlockEventIn(calendar, store[c], index)
      ]_vars

(***************************************************************************)
(* Superseded block events (LateSpec)                                      *)
(***************************************************************************)
\* the tick at instant now looks for events overlapping now -/+ 48 hours
InFindWindow(e, now) ==
    /\ e.start < addHours_(now, FIND_WINDOW_HOURS)
    /\ e.end > addHours_(now, -FIND_WINDOW_HOURS)

\* the tick of this step advanced chain c or created its final event
Superseding(c) ==
    \E i \in 1..Len(last'.paths) :
        last'.paths[i][1] = c /\ last'.paths[i][2] \in {"advanced", "final_created"}

OnlyEventRemoved(c, id) ==
    \A e \in BagToSet(calendar) \cup BagToSet(calendar') :
        (e.id[1] = c /\ e.id # id) => CopiesIn(e, calendar') = CopiesIn(e, calendar)

\* C23: a tick on an active chain whose current event exists and whose
\* current block starts after now keeps the record, changes no field of it
\* but pendingDeleteEventId, which it clears, creates no event of the chain
\* and removes none but the pending one.
C23_NotDueTickIsNoOp ==
    [][last'.op = "tick" =>
          \A c \in DOMAIN store :
              (/\ store[c].status = "active"
               /\ InCalendar(calendar, store[c].currentEventId)
               /\ clock < parseISO(store[c].blocks[store[c].indexCurrent + 1].start)) =>
                  /\ c \in DOMAIN store'
                  /\ store'[c] = [store[c] EXCEPT !.pendingDeleteEventId = NoId]
                  /\ NoNewEventsOf(c)
                  /\ OnlyEventRemoved(c, store[c].pendingDeleteEventId)
      ]_vars

\* a tick has just found a chain not due on its second or a later block and
\* has deleted the event of the block before it
C23_Witness ==
    /\ last.op = "tick"
    /\ \E c \in DOMAIN store :
          /\ \E i \in 1..Len(last.paths) : last.paths[i] = <<c, "not_due">>
          /\ store[c].indexCurrent >= 1
          /\ store[c].pendingDeleteEventId = NoId
          /\ ~BlockEventIn(calendar, store[c], store[c].indexCurrent - 1)
          /\ InCalendar(calendar, store[c].currentEventId)
          /\ humanDeletes = 0

(***************************************************************************)
(* Chains in one tick (FaultSpec)                                          *)
(***************************************************************************)
\* the events of chain c in a calendar, with their numbers of copies
EventsOf(cal, c) == {<<e, CopiesIn(e, cal)>> : e \in {f \in BagToSet(cal) : f.id[1] = c}}

\* the record of chain c in a store, NoState if there is none
RecordOf(st, c) == IF c \in DOMAIN st THEN st[c] ELSE NoState

\* C24: a tick does to the record and to the events of a chain what its
\* iteration does to them when run on that chain alone, whichever other chains
\* are persisted, in whatever order they are iterated, and also when the
\* final event of another chain cannot be created.
C24_ChainIndependence ==
    [][last'.op \in {"tick", "tick_threw"} =>
          \A c \in DOMAIN store :
              (\A i \in 1..Len(last'.paths) : last'.paths[i] # <<c, "final_threw">>) =>
                  LET r == TickChain(calendar, store[c], clock)
                  IN  /\ RecordOf(store', c) = RecordOf(StoreAfter(store, store[c], r), c)
                      /\ EventsOf(calendar', c) = EventsOf(r.cal, c)
      ]_vars

(***************************************************************************)
(* C25  Crash safety of the record                                         *)
(***************************************************************************)
\* one complete iteration of processHourlyChains_ on the record of chain c
IterationOn(st, cal, now, c) ==
    IF c \in DOMAIN st /\ Parses(st[c])
    THEN LET r == TickChain(cal, st[c], now)
         IN  [store |-> StoreAfter(st, st[c], r), cal |-> r.cal]
    ELSE [store |-> st, cal |-> cal]

\* C25: when processHourlyChains_ or an ingestion that starts a chain aborts,
\* every persisted record is afterwards the record from before the invocation
\* or the record the complete transition writes; the record a complete tick
\* then makes of it is the one the unaborted tick writes, or the one the tick
\* after that writes, and a repeated ingestion writes the record the unaborted
\* ingestion writes
C25_RecordCrashSafe ==
    [][/\ last'.op = "tick_crash" =>
             \A c \in DOMAIN store \cup DOMAIN store' :
                 LET done == IterationOn(store, calendar, clock, c)
                     again == IterationOn(done.store, done.cal, clock, c)
                     rerun == IterationOn(store', calendar', clock, c)
                 IN  /\ RecordOf(store', c) \in {RecordOf(store, c), RecordOf(done.store, c)}
                     /\ RecordOf(rerun.store, c)
                            \in {RecordOf(done.store, c), RecordOf(again.store, c)}
       /\ last'.op = "ingest_crash" =>
             LET done == createTwoEventsForMail_(store, calendar, triggers,
                                                 HourlyMail, clock)
                 rerun == createTwoEventsForMail_(store', calendar', triggers',
                                                  HourlyMail, clock)
             IN  \A c \in DOMAIN store \cup DOMAIN store' \cup DOMAIN done.store :
                     /\ RecordOf(store', c) \in {RecordOf(store, c), RecordOf(done.store, c)}
                     /\ RecordOf(rerun.store, c) = RecordOf(done.store, c)
      ]_vars

\* an iteration has aborted between the creation of an event and the save,
\* and the event is on the calendar while the record is the one from before
C25_Witness ==
    /\ last.op = "tick_crash"
    /\ \E i \in 1..Len(last.paths) : last.paths[i][2] = "event_created"
    /\ Leftovers(calendar, store) # {}
    /\ store # EmptyStore

C26_WitnessNoMail ==
    /\ last = [op |-> "done", kind |-> "no_mail"]
    /\ lock = 0

(***************************************************************************)
(* C27  deleteAllTestAlerts                                                *)
(***************************************************************************)
\* the step leaves no TEST chain state, keeps every other chain state as it
\* is, and removes the trigger exactly if no chain state is left
TestStatesCleaned ==
    /\ DOMAIN store' = {c \in DOMAIN store : ModeOfKey(c) # "TEST"}
    /\ \A c \in DOMAIN store' : store'[c] = store[c]
    /\ triggers' = IF DOMAIN store' = {} THEN 0 ELSE triggers

\* C27 as claimed: deleteAllTestAlerts deletes exactly the events that carry
\* a TEST marker and the TEST chain states, leaves LIVE events and LIVE chain
\* states unchanged, and removes the trigger iff no chain state remains.
C27_DeletesExactlyTest ==
    [][last'.op = "deleteAllTestAlerts" =>
          /\ BagToSet(calendar') \subseteq BagToSet(calendar)
          /\ \A e \in BagToSet(calendar) :
                CopiesIn(e, calendar') =
                    IF ModeOfEvent(e) = "TEST" THEN 0 ELSE CopiesIn(e, calendar)
          /\ TestStatesCleaned
      ]_vars

\* C27: deleteAllTestAlerts deletes exactly the events that carry a TEST
\* marker and overlap the 180 days before and after the run, and the TEST
\* chain states; every other event and chain state is unchanged, and the
\* trigger is removed iff no chain state remains.
C27_DeletesTestInRange ==
    [][last'.op = "deleteAllTestAlerts" =>
          /\ BagToSet(calendar') \subseteq BagToSet(calendar)
          /\ \A e \in BagToSet(calendar) :
                CopiesIn(e, calendar') =
                    IF /\ ModeOfEvent(e) = "TEST"
                       /\ e.start < clock + DELETE_WINDOW_DAYS * HoursPerDay
                       /\ e.end > clock - DELETE_WINDOW_DAYS * HoursPerDay
                    THEN 0 ELSE CopiesIn(e, calendar)
          /\ TestStatesCleaned
      ]_vars

\* a run has deleted a TEST event and a TEST chain state, and a LIVE event
\* and a LIVE chain state with its trigger are still there
C27_Witness ==
    /\ last.op = "deleteAllTestAlerts"
    /\ last.deleted > 0
    /\ last.chainStatesDeleted > 0
    /\ \E e \in BagToSet(calendar) : ModeOfEvent(e) = "LIVE"
    /\ \E c \in DOMAIN store : ModeOfKey(c) = "LIVE"
    /\ triggers = 1

(***************************************************************************)
(* C28  Index invariant                                                    *)
(***************************************************************************)
\* C28: every persisted chain record has at least one block and an
\* indexCurrent from 0 to the number of blocks less one; as long as the record
\* is persisted its indexCurrent never decreases, and one tick raises it by
\* at most one, however many later blocks have already started.
C28_IndexInvariant ==
    [][/\ \A c \in DOMAIN store' :
             /\ Len(store'[c].blocks) >= 1
             /\ store'[c].indexCurrent >= 0
             /\ store'[c].indexCurrent < Len(store'[c].blocks)
       /\ \A c \in DOMAIN store \cap DOMAIN store' :
             /\ store'[c].indexCurrent >= store[c].indexCurrent
             /\ store'[c].indexCurrent <= store[c].indexCurrent + 1
             /\ store'[c].blocks = store[c].blocks
      ]_vars

\* a tick has advanced a chain by one block at an instant that is past the
\* start of the block after the one it advanced to
C28_Witness ==
    /\ last.op = "tick"
    /\ \E c \in DOMAIN store :
          /\ \E i \in 1..Len(last.paths) : last.paths[i] = <<c, "advanced">>
          /\ store[c].indexCurrent + 2 <= Len(store[c].blocks)
          /\ clock >= parseISO(store[c].blocks[store[c].indexCurrent + 2].start)

(***************************************************************************)
(* C29  Status/id invariant                                                *)
(***************************************************************************)
\* chainId|B<index>|<start of blocks[index]>
MarkerOfBlock(st, index) ==
    <<st.chainId, "B", index, formatYYYYMMDDHHMM_(parseISO(st.blocks[index + 1].start))>>

\* C29: every persisted chain record is active or in final_cleanup; an active
\* record names the event of blocks[indexCurrent] as current and nothing or
\* the event of blocks[indexCurrent - 1] as pending; a record in
\* final_cleanup has no current event, is on its last block and names nothing
\* or the event of the last block as pending; a record in final_cleanup does
\* not become active again.
C29_StatusIdInvariant ==
    [][/\ \A c \in DOMAIN store' :
             LET st == store'[c]
                 lastIndex == Len(st.blocks) - 1
             IN  /\ st.status \in {"active", "final_cleanup"}
                 /\ st.status = "active" =>
                       /\ st.currentEventId = MarkerOfBlock(st, st.indexCurrent)
                       /\ \/ st.pendingDeleteEventId = NoId
                          \/ /\ st.indexCurrent >= 1
                             /\ st.pendingDeleteEventId
                                    = MarkerOfBlock(st, st.indexCurrent - 1)
                 /\ st.status = "final_cleanup" =>
                       /\ st.currentEventId = NoId
                       /\ st.indexCurrent = lastIndex
                       /\ st.pendingDeleteEventId \in {NoId, MarkerOfBlock(st, lastIndex)}
       /\ \A c \in DOMAIN store \cap DOMAIN store' :
             store[c].status = "final_cleanup" => store'[c].status = "final_cleanup"
      ]_vars

\* one tick has advanced a chain, which names the superseded event as
\* pending, and has put another chain into final_cleanup
C29_Witness ==
    /\ last.op = "tick"
    /\ \E c \in DOMAIN store :
          /\ store[c].status = "active"
          /\ store[c].indexCurrent >= 1
          /\ store[c].pendingDeleteEventId # NoId
    /\ \E c \in DOMAIN store :
          /\ store[c].status = "final_cleanup"
          /\ store[c].pendingDeleteEventId # NoId

(***************************************************************************)
(* C30  Bounded calendar footprint                                         *)
(***************************************************************************)
\* the events of one kind ("B", "FINAL") of chain c among the events evs of
\* the calendar, each with its copies
EventsOfKind(cal, evs, c, kind) ==
    [e \in {f \in evs : f.id[1] = c /\ f.id[2] = kind} |-> cal[e]]

\* the footprint of every chain among the events evs: at most two block
\* events, at most one final event, and no block event once the final event
\* is there and the record is gone
FootprintBounded(cal, evs, st) ==
    \A g \in {f \in evs : f.id[2] \in {"B", "FINAL"}} :
        LET c == g.id[1]
        IN  /\ BagCardinality(EventsOfKind(cal, evs, c, "B")) <= 2
            /\ BagCardinality(EventsOfKind(cal, evs, c, "FINAL")) <= 1
            /\ (c \notin DOMAIN st /\ g.id[2] = "FINAL") =>
                  BagCardinality(EventsOfKind(cal, evs, c, "B")) = 0

C31_DriverDeletesOwnBlocksOnly ==
    [][last'.op \in {"tick", "tick_threw", "tick_crash"} =>
          \A e \in BagToSet(calendar) :
              CopiesIn(e, calendar') < CopiesIn(e, calendar) =>
                  /\ e.id[2] = "B"
                  /\ e.id[1] \in DOMAIN store
                  /\ e.id = store[e.id[1]].pendingDeleteEventId
                  /\ CopiesIn(e, calendar') = CopiesIn(e, calendar) - 1
      ]_vars

\* a tick has advanced a chain to its third block or beyond and the event of
\* the block before the superseded one, which nobody deleted by hand, is
\* gone, while the LONG events, block events of another chain and a final
\* event are on the calendar
C31_Witness ==
    /\ last.op = "tick"
    /\ humanDeletes = 0
    /\ \E c \in DOMAIN store :
          /\ \E i \in 1..Len(last.paths) : last.paths[i] = <<c, "advanced">>
          /\ store[c].indexCurrent >= 2
          /\ ~ \E e \in BagToSet(calendar) :
                  e.id[1] = c /\ e.id[2] = "B" /\ e.id[3] = store[c].indexCurrent - 2
          /\ \E e \in BagToSet(calendar) : e.id = LongIdOf(store[c].baseId)
          /\ \E e \in BagToSet(calendar) : e.id[2] = "B" /\ e.id[1] # c
    /\ \E e \in BagToSet(calendar) : e.id[2] = "FINAL"

(***************************************************************************)
(* C32  Signal range                                                       *)
(***************************************************************************)
\* C32 as claimed: every signal lies between ceilToHour_(windowStart + 1
\* hour) and the deadline less one hour, both included.
C32_SignalsInRange ==
    pPhase \in {"planned", "packed"} =>
        \A i \in 1..Len(pSignals) :
            /\ pSignals[i] >= ceilToHour_(addHours_(pLongStart, 1))
            /\ pSignals[i] <= addHours_(pExpiresAt, -1)

\* C32: no signal is later than the deadline less one hour, and every signal
\* but the end signal (the deadline less one hour itself) is at or after
\* ceilToHour_(windowStart + 1 hour); the end signal is returned wherever it
\* lies, also before the window start.
C32_SignalsInRangeButEndSignal ==
    pPhase \in {"planned", "packed"} =>
        \A i \in 1..Len(pSignals) :
            /\ pSignals[i] <= addHours_(pExpiresAt, -1)
            /\ \/ pSignals[i] >= ceilToHour_(addHours_(pLongStart, 1))
               \/ /\ pSignals[i] = addHours_(pExpiresAt, -1)
                  /\ i = Len(pSignals)

\* a plan whose first signal is the first stepped hour and whose last signal
\* is the end signal, off the hour
C32_Witness ==
    /\ pPhase = "planned"
    /\ Len(pSignals) >= 3
    /\ pSignals[1] = ceilToHour_(addHours_(pLongStart, 1))
    /\ pSignals[Len(pSignals)] = addHours_(pExpiresAt, -1)
    /\ pSignals[Len(pSignals)] % MsPerHour # 0

\* a plan whose only signal is the end signal, before the window start
C32_WitnessEarly ==
    /\ pPhase = "planned"
    /\ Len(pSignals) = 1
    /\ pSignals[1] < pLongStart
    /\ pExpiresAt >= pLongStart

=============================================================================
